---------------------------- MODULE Spec2Model ----------------------------
(***************************************************************************)
(* Model of the iRacing SDK reader (IRSDK class, structs, utils).          *)
(*                                                                         *)
(* The shared region is written by the external simulator and read by the  *)
(* IRSDK object.  Telemetry lives in numBuf rotating tick buffers of       *)
(* BufLen cells each; every cell the writer fills carries the number of    *)
(* the tick it belongs to, so "a read returned data of tick t" is simply   *)
(* "the read returned t".  The session text block is a sequence of bytes.  *)
(***************************************************************************)
EXTENDS Integers, Sequences, FiniteSets, TLC

(***************************************************************************)
(* Bounds                                                                  *)
(***************************************************************************)
MaxNumBuf == 2      \* largest header.numBuf explored
BufLen == 3         \* header.bufLen, in cells
MaxTick == 2        \* largest tick counter the writer stamps
MaxUpdate == 2      \* largest session-info update counter

Bufs == 1..MaxNumBuf
Ticks == 0..MaxTick
MemSize == MaxNumBuf * BufLen
Addrs == 0..(MemSize - 1)

(***************************************************************************)
(* Descriptor table of the region: two scalar variables.                   *)
(***************************************************************************)
VarNames == {"Speed", "Throttle"}
SessionKeys == {"WeekendInfo"}
UnknownKeys == {"Nope"}
Keys == VarNames \cup SessionKeys \cup UnknownKeys \cup {"SessionNum"}

\* The descriptor records of a complete region, in table order
VarTable == <<"Speed", "Throttle", "SessionNum">>
MaxNumVars == Len(VarTable)

\* VarHeader.offset of each descriptor (byte offset within a tick buffer)
VarOffset(name) ==
    IF name = "Speed" THEN 0 ELSE IF name = "SessionNum" THEN 2 ELSE 1

\* constants.StatusField.status_connected
status_connected == 1

\* VarBuffer._bufOffset of header slot b: buffers are laid out back to back
BufOffset(b) == (b - 1) * BufLen

VARIABLES
    \* ---- the shared region ----
    version,            \* header.version
    status,             \* header.status
    numVars,            \* header.numVars
    numBuf,             \* header.numBuf
    tick,               \* header.varBuf[b].tickCount
    mem,                \* payload cells of the tick buffers
    sessionInfoUpdate,  \* header.sessionInfoUpdate, the update counter
    text,               \* the session text block (sessionInfoLen bytes)
    \* ---- the external writer ----
    wbuf,               \* buffer being overwritten, 0 when idle
    wtick,              \* tick number being written
    wpos,               \* cells of wbuf already overwritten
    wbumped,            \* tick counter of wbuf already advanced
    \* ---- the IRSDK object ----
    parseYamlAsync,     \* constructor argument
    isInitialized,
    header,             \* TRUE when this.header is not null
    varHeaders,         \* TRUE when this.varHeaders / varHeadersDict are built
    varHeadersNames,    \* TRUE when this.varHeadersNames is not null
    varBufferLatest,    \* header slot of the frozen VarBuffer, 0 when null
    frozenMemory,       \* VarBuffer._frozenMemory: [start, len] view, or NoView
    lastSessionInfoUpdate,
    sessionInfoDict,    \* key -> SessionInfoCache entry
    testFile,           \* TRUE when this.testFile is not null
    dataValidEvent,     \* TRUE when this.dataValidEvent is a handle
    windowsApi,         \* TRUE when the Windows bindings were loaded
    workaroundConnectedState,
    \* ---- observations of the caller ----
    ret,                \* outcome of the last call
    snap,               \* cells of the captured buffer at the last freeze
    capPartial,         \* captured buffer was half written at the freeze
    capBuf,             \* header slot captured by the last freeze, 0 when none
    bracket,            \* values returned by get since the last freeze
    lastGood,           \* key -> value of its latest successful parse since
                        \* the region was opened
    dropped,            \* keys that had a parsed value when a shutdown ran
    shutDown,           \* shutdown() ran and no startup() has succeeded since
    attemptAt,          \* key -> counter at its latest extraction attempt
    tableParses,        \* descriptor tables parsed since the region was opened
    \* ---- the IBT object ----
    ibtHeader,          \* file this.sharedMem / header / diskHeader hold, 0 = null
    ibtVarHeaders,      \* file this.varHeaders / varHeadersDict were read from
    ibtVarHeadersNames, \* file this.varHeadersNames was read from, 0 = null
    ibtTableParses,     \* descriptor tables parsed since the last open
    \* ---- a pure function under test ----
    arg,                \* its input
    out                 \* its result, NoOut before the call

telemVars == <<numBuf, tick, mem, wbuf, wtick, wpos, wbumped>>
textVars == <<sessionInfoUpdate, text>>
sdkVars == <<parseYamlAsync, isInitialized, header, varHeaders,
             varHeadersNames, varBufferLatest, frozenMemory,
             lastSessionInfoUpdate, sessionInfoDict>>
obsVars == <<ret, snap, capPartial, capBuf, bracket, lastGood, dropped, shutDown,
             attemptAt>>
hdrVars == <<version, status, numVars>>
connVars == <<testFile, dataValidEvent, windowsApi, workaroundConnectedState>>
ibtVars == <<ibtHeader, ibtVarHeaders, ibtVarHeadersNames, ibtTableParses>>
pureVars == <<arg, out>>
vars == <<telemVars, textVars, sdkVars, obsVars, hdrVars, connVars,
          tableParses, ibtVars, pureVars>>

NoView == [start |-> -1, len |-> 0]
NoSnap == [i \in 0..(BufLen - 1) |-> 0]
\* ret.prevTick: on an unfrozen get of a variable that directly follows
\* another one (writer steps apart), the tick counter that one read from
\* ret.kind: "undefined", "null", "throw", "telemetry" (a decoded variable),
\* "session" (a parsed session-info value), "void", "true", "false", "list"
NoRet == [op |-> "none", key |-> "", kind |-> "none", val |-> -1,
          data |-> <<>>, init |-> FALSE, frozen |-> FALSE, buf |-> 0,
          selTick |-> -1, maxTick |-> -1, secondTick |-> -1,
          selPartial |-> FALSE,
          obs |-> -1, advanced |-> FALSE, extracted |-> FALSE,
          found |-> FALSE, sameBin |-> FALSE, parsed |-> FALSE,
          parseRes |-> "none", goodBefore |-> <<>>,
          index |-> -2, list |-> <<>>, file |-> 0, prev |-> 0,
          prevTick |-> -1]

NoArg == [fn |-> "none"]
NoOut == [done |-> FALSE]

(***************************************************************************)
(* Helpers                                                                 *)
(***************************************************************************)
MaxOf(S) == CHOOSE x \in S : \A y \in S : y <= x

\* header.varBuf: one VarBuffer per header slot 1..numBuf
varBuf == 1..numBuf

\* Names of the numVars descriptor records getVarHeaders() reads
TableNames == {VarTable[i] : i \in 1..numVars}

\* Keys of this.varHeadersDict: empty until getVarHeaders() has filled it
varHeadersDict == IF varHeaders THEN TableNames ELSE {}

\* The writer has overwritten some but not all cells of buffer b
Partial(b) == wbuf = b /\ 0 < wpos /\ wpos < BufLen

\* [...header.varBuf].sort((a, b) => b.tickCount - a.tickCount):
\* position of slot b in the stable descending sort by tick counter
SortPos(b) ==
    1 + Cardinality({c \in varBuf :
                        tick[c] > tick[b] \/ (tick[c] = tick[b] /\ c < b)})

\* sorted[i - 1] of that sort, as a header slot
Sorted(i) == CHOOSE b \in varBuf : SortPos(b) = i

\* The second-highest tick counter of the region (the only one with one
\* buffer), counted with multiplicity
SecondTick ==
    IF numBuf = 1 THEN tick[1]
    ELSE CHOOSE t \in {tick[c] : c \in varBuf} :
             /\ Cardinality({c \in varBuf : tick[c] > t}) <= 1
             /\ Cardinality({c \in varBuf : tick[c] >= t}) >= 2

\* VarBuffer.getMemory() read at a cell offset: a frozen buffer reads through
\* its _frozenMemory, which Buffer.slice made a view of the shared region
\* (same memory, offset and cropped), an unfrozen one reads the region.
ReadFrozen(view, off) == mem[view.start + off]
ReadShared(off) == mem[off]

(***************************************************************************)
(* Session text: bytes, extraction, cleanup and parse                      *)
(***************************************************************************)
NL == "\n"

\* Buffer.from(sectionName, 'utf-8'); names are abbreviated to two bytes
NameBytes(key) ==
    CASE key = "WeekendInfo" -> <<"W", "I">>
      [] key = "Speed" -> <<"S", "p">>
      [] key = "Throttle" -> <<"T", "h">>
      [] OTHER -> <<"N", "o">>

\* Text blocks the simulator publishes
BlkA == <<NL, "W", "I", ":", NL, " ", "a", NL, NL, NL>>
BlkB == <<NL, "W", "I", ":", NL, " ", "b", NL, NL, NL>>
BlkBad == <<NL, "W", "I", ":", NL, " ", "[", NL, NL, NL>>
BlkEmpty == <<NL, "W", "I", ":", NL, NL, NL, NL>>
BlkNone == <<NL, "X", "X", ":", NL, " ", "a", NL, NL, NL>>
Blocks == {BlkA, BlkB, BlkBad, BlkEmpty, BlkNone}

NoBytes == <<>>     \* null Buffer / null value (extracted sections are never empty)

MinOf(S) == CHOOSE x \in S : \A y \in S : x <= y

\* sharedMem[i] with a 0-based index; undefined outside the buffer
ByteAt(m, i) == IF i >= 0 /\ i < Len(m) THEN m[i + 1] ELSE "undefined"

\* Buffer.slice(from, to) contents, 0-based, end clamped to the length
Slice(m, from, to) ==
    SubSeq(m, from + 1, IF to < Len(m) THEN to ELSE Len(m))

\* for (i = from; i < end - pat.length; i++) first i where pat matches
MatchSet(m, from, end, pat) ==
    {i \in from..(end - Len(pat) - 1) :
        \A j \in 0..(Len(pat) - 1) : ByteAt(m, i + j) = pat[j + 1]}

\* extractYamlSection that keeps the newline in front of the header
extractYamlSection_KeepNewline(sharedMem, offset, len, sectionName) ==
    LET start == offset
        end == start + len
        searchBuffer == <<NL>> \o NameBytes(sectionName) \o <<":", NL>>
        hits == MatchSet(sharedMem, start, end, searchBuffer)
        matchStart == IF hits = {} THEN -1 ELSE MinOf(hits)
        ends == MatchSet(sharedMem, matchStart + 1, end, <<NL, NL>>)
        matchEnd == IF ends = {} THEN end ELSE MinOf(ends)
    IN  IF matchStart = -1 THEN NoBytes
        ELSE Slice(sharedMem, matchStart, matchEnd)

\* extractYamlSection that lets the header line end behind the block
extractYamlSection_PastBlockEnd(sharedMem, offset, len, sectionName) ==
    LET start == offset
        end == start + len
        searchBuffer == <<NL>> \o NameBytes(sectionName) \o <<":", NL>>
        hits == MatchSet(sharedMem, start, end + Len(searchBuffer),
                         searchBuffer)
        matchStart == IF hits = {} THEN -1 ELSE MinOf(hits) + 1
        ends == MatchSet(sharedMem, matchStart + 1, end, <<NL, NL>>)
        matchEnd == IF ends = {} THEN end ELSE MinOf(ends)
    IN  IF matchStart = -1 THEN NoBytes
        ELSE Slice(sharedMem, matchStart, matchEnd)

extractYamlSection(sharedMem, offset, len, sectionName) ==
    LET start == offset
        end == start + len
        searchBuffer == <<NL>> \o NameBytes(sectionName) \o <<":", NL>>
        hits == MatchSet(sharedMem, start, end, searchBuffer)
        matchStart == IF hits = {} THEN -1 ELSE MinOf(hits) + 1
        ends == MatchSet(sharedMem, matchStart + 1, end, <<NL, NL>>)
        matchEnd == IF ends = {} THEN end ELSE MinOf(ends)
    IN  IF matchStart = -1 THEN NoBytes
        ELSE Slice(sharedMem, matchStart, matchEnd)

\* constants.YAML_TRANSLATER: bytes replaced by a space
YAML_TRANSLATER == {"x81", "x8d", "x8f", "x90", "x9d"}

translateYamlData(data) ==
    LET buffer == [i \in 1..Len(data) |->
                      IF data[i] \in YAML_TRANSLATER THEN " " ELSE data[i]]
        nulls == {i \in 1..Len(buffer) : buffer[i] = "x00"}
    IN  IF nulls = {} THEN buffer ELSE SubSeq(buffer, 1, MinOf(nulls) - 1)

\* A sequence without the bytes of set drop
RECURSIVE Without(_, _)
Without(str, drop) ==
    IF str = <<>> THEN <<>>
    ELSE IF Head(str) \in drop THEN Without(Tail(str), drop)
    ELSE <<Head(str)>> \o Without(Tail(str), drop)

\* yaml.load on a section "Name:\n value": a mapping with the single key
\* Name; the value is null when nothing but blanks follows the header line.
\* An unclosed "[" is a syntax error (YAMLException).
NoParse == [ok |-> FALSE, name |-> <<>>, value |-> <<>>]

yamlLoad(str) ==
    LET colons == {i \in 1..Len(str) : str[i] = ":"}
        c == MinOf(colons)
    IN  IF \E i \in 1..Len(str) : str[i] = "[" THEN NoParse
        ELSE IF colons = {} THEN [ok |-> TRUE, name |-> <<>>, value |-> <<>>]
        ELSE [ok |-> TRUE, name |-> SubSeq(str, 1, c - 1),
              value |-> Without(SubSeq(str, c + 1, Len(str)), {" ", NL})]

\* parseIRSDKYaml: strip control bytes, then yaml.load inside try/catch;
\* the catch returns null.  The quoting of name fields and of values that
\* start with a comma does not apply to the bytes the blocks are made of.
parseIRSDKYaml(yamlStr) ==
    yamlLoad(Without(yamlStr, {"x01", "x7f"}))

\* parsed[key]
ParsedKey(parsed, key) ==
    IF parsed.name = NameBytes(key) THEN parsed.value ELSE NoBytes

(***************************************************************************)
(* IRSDK: session-info cache                                               *)
(***************************************************************************)
\* { data: null } as created by getSessionInfo; -1 stands for undefined
NoEntry == [has |-> FALSE, data |-> NoBytes, dataLast |-> NoBytes,
            dataBinary |-> NoBytes, asyncSessionInfoUpdate |-> -1,
            update |-> -1]
NewEntry == [NoEntry EXCEPT !.has = TRUE]

\* getSessionInfoBinary(key): the text block is the region's bytes
\* [sessionInfoOffset, sessionInfoOffset + sessionInfoLen)
getSessionInfoBinary(key) == extractYamlSection(text, 0, Len(text), key)

\* parseYamlContent without the comparison against the recorded bytes
parseYamlContent_NoByteCompare(key, cache, last) ==
    LET dataBinary == getSessionInfoBinary(key)
        parsed == parseIRSDKYaml(translateYamlData(dataBinary))
        result == ParsedKey(parsed, key)
        recorded == [cache EXCEPT !.dataBinary = dataBinary]
    IN  IF dataBinary = NoBytes
        THEN [path |-> "missing",
              cache |-> IF cache.dataLast # NoBytes
                        THEN [cache EXCEPT !.data = cache.dataLast]
                        ELSE cache]
        ELSE IF parsed.ok
        THEN IF result # NoBytes
             THEN [path |-> "value",
                   cache |-> [recorded EXCEPT !.data = result, !.update = last]]
             ELSE [path |-> "nokey",
                   cache |-> IF recorded.dataLast # NoBytes
                             THEN [recorded EXCEPT !.data = recorded.dataLast]
                             ELSE recorded]
        ELSE [path |-> "fail", cache |-> recorded]

\* parseYamlContent(key, cache): the entry afterwards, and the path taken:
\* "missing" (no section), "same" (bytes as recorded, value reused without
\* parsing), or the parser was called: "fail", "nokey", "value"
parseYamlContent(key, cache, last) ==
    LET sessionInfoUpdateLocal == last
        dataBinary == getSessionInfoBinary(key)
        parsed == parseIRSDKYaml(translateYamlData(dataBinary))
        result == ParsedKey(parsed, key)
        recorded == [cache EXCEPT !.dataBinary = dataBinary]
    IN  IF dataBinary = NoBytes
        THEN [path |-> "missing",
              cache |-> IF cache.dataLast # NoBytes
                        THEN [cache EXCEPT !.data = cache.dataLast]
                        ELSE cache]
        ELSE IF cache.dataBinary # NoBytes /\ dataBinary = cache.dataBinary
                /\ cache.dataLast # NoBytes
        THEN [path |-> "same", cache |-> [cache EXCEPT !.data = cache.dataLast]]
        ELSE IF parsed.ok /\ (~parseYamlAsync \/ last = sessionInfoUpdateLocal)
        THEN IF result # NoBytes
             THEN [path |-> "value",
                   cache |-> [recorded EXCEPT !.data = result,
                                              !.update = sessionInfoUpdateLocal]]
             ELSE [path |-> "nokey",
                   cache |-> IF recorded.dataLast # NoBytes
                             THEN [recorded EXCEPT !.data = recorded.dataLast]
                             ELSE recorded]
        ELSE [path |-> "fail", cache |-> recorded]

\* An invalidation loop that leaves the current values in place
Invalidate_KeepCurrent(dict) == dict

\* The invalidation loop of getSessionInfo, run when the counter advanced
Invalidate(dict) ==
    [k \in DOMAIN dict |->
        IF dict[k].has
        THEN [dict[k] EXCEPT
                 !.dataLast = IF dict[k].data # NoBytes THEN dict[k].data ELSE @,
                 !.data = NoBytes]
        ELSE dict[k]]

\* A deferred mode that attempts on every get, like the immediate mode
WillParse_Always(cache, last) == TRUE

\* A deferred mode that attempts each entry once and never again
WillParse_OncePerEntry(cache, last) ==
    IF parseYamlAsync
    THEN cache.asyncSessionInfoUpdate <= 0
    ELSE TRUE

\* getSessionInfo decides to call parseYamlContent for this entry
WillParse(cache, last) ==
    IF parseYamlAsync
    THEN cache.asyncSessionInfoUpdate <= 0 \/ cache.asyncSessionInfoUpdate < last
    ELSE TRUE

\* A getSessionInfo that extracts even when a current value is cached
getSessionInfoOn_IgnoreCurrent(key, dict, lastUpdate) ==
    LET advanced == lastUpdate < sessionInfoUpdate
        last == IF advanced THEN sessionInfoUpdate ELSE lastUpdate
        d1 == IF advanced THEN Invalidate(dict) ELSE dict
        d2 == IF d1[key].has THEN d1 ELSE [d1 EXCEPT ![key] = NewEntry]
        cache == d2[key]
        hit == FALSE
        attempt == ~hit /\ WillParse(cache, last)
        marked == IF parseYamlAsync
                  THEN [cache EXCEPT !.asyncSessionInfoUpdate = last]
                  ELSE cache
        done == parseYamlContent(key, marked, last)
        after == IF attempt THEN done.cache ELSE cache
        outcome == IF attempt THEN done.path ELSE "none"
    IN  [dict |-> [d2 EXCEPT ![key] = after], last |-> last,
         advanced |-> advanced, attempt |-> attempt, outcome |-> outcome,
         data |-> after.data]

\* getSessionInfo(key) run on cache dict and counter lastUpdate: the state
\* it leaves and what it did
getSessionInfoOn(key, dict, lastUpdate) ==
    LET advanced == lastUpdate < sessionInfoUpdate
        last == IF advanced THEN sessionInfoUpdate ELSE lastUpdate
        d1 == IF advanced THEN Invalidate(dict) ELSE dict
        d2 == IF d1[key].has THEN d1 ELSE [d1 EXCEPT ![key] = NewEntry]
        cache == d2[key]
        hit == cache.data # NoBytes
        attempt == ~hit /\ WillParse(cache, last)
        marked == IF parseYamlAsync
                  THEN [cache EXCEPT !.asyncSessionInfoUpdate = last]
                  ELSE cache
        done == parseYamlContent(key, marked, last)
        after == IF attempt THEN done.cache ELSE cache
        outcome == IF attempt THEN done.path ELSE "none"
    IN  [dict |-> [d2 EXCEPT ![key] = after], last |-> last,
         advanced |-> advanced, attempt |-> attempt, outcome |-> outcome,
         data |-> after.data]

\* getSessionInfo(key) on the object's own cache
getSessionInfo(key) ==
    getSessionInfoOn(key, sessionInfoDict, lastSessionInfoUpdate)

(***************************************************************************)
(* IRSDK: telemetry                                                        *)
(***************************************************************************)
\* A selection that does not look at the tick counters
getVarBufferLatest_FirstSlot ==
    IF varBufferLatest # 0 THEN varBufferLatest ELSE 1

\* getVarBufferLatest(): the frozen buffer, else the 2nd of the sort
getVarBufferLatest ==
    IF varBufferLatest # 0 THEN varBufferLatest
    ELSE IF numBuf > 1 THEN Sorted(2) ELSE Sorted(1)

\* get(key) on a key found in varHeadersDict: the decoded scalar
GetTelemetry(key) ==
    LET b == getVarBufferLatest
        frozen == frozenMemory # NoView     \* VarBuffer._isFrozen
        bufOffset == IF frozen THEN 0 ELSE BufOffset(b)
        offset == bufOffset + VarOffset(key)
    IN  [buf |-> b, frozen |-> frozen,
         val |-> IF frozen THEN ReadFrozen(frozenMemory, offset)
                 ELSE ReadShared(offset)]

(***************************************************************************)
(* The external writer (the simulator)                                     *)
(***************************************************************************)
WriterBegin(b) ==
    /\ wbuf = 0
    /\ b \in varBuf
    /\ MaxOf({tick[c] : c \in varBuf}) < MaxTick
    /\ wbuf' = b
    /\ wtick' = MaxOf({tick[c] : c \in varBuf}) + 1
    /\ wpos' = 0
    /\ wbumped' = FALSE
    /\ UNCHANGED <<numBuf, tick, mem, textVars, sdkVars, obsVars,
                   hdrVars, connVars, tableParses, ibtVars, pureVars>>

WriterBump ==
    /\ wbuf # 0
    /\ ~wbumped
    /\ tick' = [tick EXCEPT ![wbuf] = wtick]
    /\ wbumped' = TRUE
    /\ UNCHANGED <<numBuf, mem, wbuf, wtick, wpos, textVars, sdkVars, obsVars,
                   hdrVars, connVars, tableParses, ibtVars, pureVars>>

WriterWriteCell ==
    /\ wbuf # 0
    /\ wpos < BufLen
    /\ mem' = [mem EXCEPT ![BufOffset(wbuf) + wpos] = wtick]
    /\ wpos' = wpos + 1
    /\ UNCHANGED <<numBuf, tick, wbuf, wtick, wbumped, textVars, sdkVars, obsVars,
                   hdrVars, connVars, tableParses, ibtVars, pureVars>>

WriterEnd ==
    /\ wbuf # 0
    /\ wbumped
    /\ wpos = BufLen
    /\ wbuf' = 0
    /\ UNCHANGED <<numBuf, tick, mem, wtick, wpos, wbumped, textVars, sdkVars, obsVars,
                   hdrVars, connVars, tableParses, ibtVars, pureVars>>

\* The simulator rewrites the session text block
WriteText(blk) ==
    /\ text # blk
    /\ text' = blk
    /\ UNCHANGED <<telemVars, sessionInfoUpdate, sdkVars, obsVars,
                   hdrVars, connVars, tableParses, ibtVars, pureVars>>

\* The simulator sets the status flag of the header
SetStatus(s) ==
    /\ status # s
    /\ status' = s
    /\ UNCHANGED <<telemVars, textVars, sdkVars, obsVars, version, numVars,
                   connVars, tableParses, ibtVars, pureVars>>

\* The simulator advances the session-info update counter
AdvanceUpdate ==
    /\ sessionInfoUpdate < MaxUpdate
    /\ sessionInfoUpdate' = sessionInfoUpdate + 1
    /\ UNCHANGED <<telemVars, text, sdkVars, obsVars,
                   hdrVars, connVars, tableParses, ibtVars, pureVars>>

(***************************************************************************)
(* IRSDK: the public operations                                            *)
(***************************************************************************)
\* startup(testFile): OpenEventW and WaitForSingleObject are called only
\* with the Windows bindings; opened and signalled are their outcomes.
\* Without a test file no region can be opened.
Startup(withTestFile) ==
    \E opened \in BOOLEAN, signalled \in BOOLEAN :
        LET event == IF ~withTestFile /\ windowsApi THEN opened
                     ELSE dataValidEvent
            waits == event /\ windowsApi
            usable == version >= 1 /\ numBuf > 0
        IN  /\ (opened => (~withTestFile /\ windowsApi))
            /\ (~signalled => waits)
            /\ IF ~signalled
               THEN /\ dataValidEvent' = FALSE
                    /\ ret' = [NoRet EXCEPT !.op = "startup", !.kind = "false"]
                    /\ UNCHANGED <<header, isInitialized, testFile, shutDown>>
               ELSE IF ~header /\ ~withTestFile
               THEN /\ dataValidEvent' = event
                    /\ ret' = [NoRet EXCEPT !.op = "startup", !.kind = "false"]
                    /\ UNCHANGED <<header, isInitialized, testFile, shutDown>>
               ELSE /\ dataValidEvent' = event
                    /\ testFile' = IF header THEN testFile ELSE TRUE
                    /\ header' = TRUE
                    /\ isInitialized' = usable
                    /\ shutDown' = (shutDown /\ ~usable)
                    /\ ret' = [NoRet EXCEPT !.op = "startup",
                                  !.kind = IF usable THEN "true" ELSE "false"]
            /\ UNCHANGED <<telemVars, textVars, parseYamlAsync, varHeaders,
                           varHeadersNames, varBufferLatest, frozenMemory,
                           lastSessionInfoUpdate, sessionInfoDict,
                           snap, capPartial, capBuf, bracket, lastGood, dropped, attemptAt,
                           hdrVars, windowsApi, workaroundConnectedState,
                           tableParses, ibtVars, pureVars>>

\* A shutdown that does not clear the session-info cache
Shutdown_KeepCache ==
    /\ isInitialized' = FALSE
    /\ lastSessionInfoUpdate' = 0
    /\ header' = FALSE
    /\ varHeaders' = FALSE
    /\ varHeadersNames' = FALSE
    /\ varBufferLatest' = 0
    /\ frozenMemory' = NoView
    /\ UNCHANGED sessionInfoDict
    /\ lastGood' = [k \in Keys |-> NoBytes]
    /\ dropped' = dropped \cup {k \in Keys : lastGood[k] # NoBytes}
    /\ shutDown' = TRUE
    /\ attemptAt' = [k \in Keys |-> -1]
    /\ bracket' = {}
    /\ snap' = NoSnap
    /\ capPartial' = FALSE
    /\ capBuf' = 0
    /\ dataValidEvent' = FALSE
    /\ testFile' = FALSE
    /\ tableParses' = 0
    /\ ret' = [NoRet EXCEPT !.op = "shutdown", !.kind = "void"]
    /\ UNCHANGED <<telemVars, textVars, parseYamlAsync, hdrVars, windowsApi,
                   workaroundConnectedState, ibtVars, pureVars>>

\* A shutdown that also resets the liveness workaround
Shutdown_ResetWorkaround ==
    /\ isInitialized' = FALSE
    /\ lastSessionInfoUpdate' = 0
    /\ header' = FALSE
    /\ varHeaders' = FALSE
    /\ varHeadersNames' = FALSE
    /\ varBufferLatest' = 0
    /\ frozenMemory' = NoView
    /\ sessionInfoDict' = [k \in Keys |-> NoEntry]
    /\ lastGood' = [k \in Keys |-> NoBytes]
    /\ dropped' = dropped \cup {k \in Keys : lastGood[k] # NoBytes}
    /\ shutDown' = TRUE
    /\ attemptAt' = [k \in Keys |-> -1]
    /\ bracket' = {}
    /\ snap' = NoSnap
    /\ capPartial' = FALSE
    /\ capBuf' = 0
    /\ dataValidEvent' = FALSE
    /\ testFile' = FALSE
    /\ tableParses' = 0
    /\ ret' = [NoRet EXCEPT !.op = "shutdown", !.kind = "void"]
    /\ workaroundConnectedState' = 0
    /\ UNCHANGED <<telemVars, textVars, parseYamlAsync, hdrVars, windowsApi,
                   ibtVars, pureVars>>

\* shutdown()
Shutdown ==
    /\ isInitialized' = FALSE
    /\ lastSessionInfoUpdate' = 0
    /\ header' = FALSE
    /\ varHeaders' = FALSE
    /\ varHeadersNames' = FALSE
    /\ varBufferLatest' = 0
    /\ frozenMemory' = NoView
    /\ sessionInfoDict' = [k \in Keys |-> NoEntry]
    /\ lastGood' = [k \in Keys |-> NoBytes]
    /\ dropped' = dropped \cup {k \in Keys : lastGood[k] # NoBytes}
    /\ shutDown' = TRUE
    /\ attemptAt' = [k \in Keys |-> -1]
    /\ bracket' = {}
    /\ snap' = NoSnap
    /\ capPartial' = FALSE
    /\ capBuf' = 0
    /\ dataValidEvent' = FALSE
    /\ testFile' = FALSE
    /\ tableParses' = 0
    /\ ret' = [NoRet EXCEPT !.op = "shutdown", !.kind = "void"]
    /\ UNCHANGED <<telemVars, textVars, parseYamlAsync, hdrVars, windowsApi,
                   workaroundConnectedState, ibtVars, pureVars>>

\* The varHeadersNamesList getter, the only caller of getVarHeaders()
VarHeadersNamesList ==
    /\ IF ~varHeadersNames /\ header
       THEN /\ varHeaders' = TRUE
            /\ varHeadersNames' = TRUE
            /\ tableParses' = IF varHeaders THEN tableParses
                              ELSE tableParses + 1
       ELSE UNCHANGED <<varHeaders, varHeadersNames, tableParses>>
    /\ ret' = [NoRet EXCEPT !.op = "varHeadersNamesList", !.kind = "list"]
    /\ UNCHANGED <<telemVars, textVars, parseYamlAsync, isInitialized, header,
                   varBufferLatest, frozenMemory, lastSessionInfoUpdate,
                   sessionInfoDict, snap, capPartial, capBuf, bracket, lastGood, dropped, shutDown,
                   attemptAt, hdrVars, connVars, ibtVars, pureVars>>

\* get(key)
Get(key) ==
    IF ~isInitialized \/ ~header
    THEN /\ ret' = [NoRet EXCEPT !.op = "get", !.key = key,
                                 !.kind = "undefined"]
         /\ UNCHANGED <<telemVars, textVars, sdkVars, snap, capPartial, capBuf,
                        bracket, lastGood, dropped, shutDown, attemptAt, hdrVars, connVars,
                        tableParses, ibtVars, pureVars>>
    ELSE IF key \in varHeadersDict
    THEN LET t == GetTelemetry(key)
         IN  /\ ret' = [NoRet EXCEPT !.op = "get", !.key = key,
                           !.kind = "telemetry", !.val = t.val,
                           !.init = TRUE, !.frozen = t.frozen, !.buf = t.buf,
                           !.selTick = tick[t.buf],
                           !.maxTick = MaxOf({tick[c] : c \in varBuf}),
                           !.secondTick = SecondTick,
                           !.selPartial = Partial(t.buf),
                           !.prevTick = IF ret.op = "get"
                                           /\ ret.kind = "telemetry"
                                           /\ ~ret.frozen /\ ~t.frozen
                                        THEN ret.selTick ELSE -1]
             /\ bracket' = IF t.frozen THEN bracket \cup {t.val} ELSE bracket
             /\ UNCHANGED <<telemVars, textVars, sdkVars, snap, capPartial, capBuf,
                            lastGood, dropped, shutDown, attemptAt, hdrVars, connVars,
                            tableParses, ibtVars, pureVars>>
    ELSE LET r == getSessionInfo(key)
         IN  /\ sessionInfoDict' = r.dict
             /\ lastSessionInfoUpdate' = r.last
             /\ lastGood' = IF r.outcome = "value"
                            THEN [lastGood EXCEPT ![key] = r.data]
                            ELSE lastGood
             /\ attemptAt' = IF r.attempt
                             THEN [attemptAt EXCEPT ![key] = r.last]
                             ELSE attemptAt
             /\ ret' = [NoRet EXCEPT !.op = "get", !.key = key,
                           !.kind = IF r.data = NoBytes THEN "null"
                                    ELSE "session",
                           !.data = r.data, !.init = TRUE,
                           !.frozen = (varBufferLatest # 0),
                           !.obs = sessionInfoUpdate,
                           !.advanced = r.advanced,
                           !.extracted = r.attempt,
                           !.found = (getSessionInfoBinary(key) # NoBytes),
                           !.sameBin = (getSessionInfoBinary(key)
                                          = sessionInfoDict[key].dataBinary),
                           !.parsed = (r.outcome \in {"fail", "nokey", "value"}),
                           !.parseRes = r.outcome,
                           !.goodBefore = lastGood[key]]
             /\ UNCHANGED <<telemVars, textVars, parseYamlAsync,
                            isInitialized, header, varHeaders,
                            varHeadersNames, varBufferLatest, frozenMemory,
                            snap, capPartial, capBuf, bracket, dropped, shutDown,
                            hdrVars, connVars,
                            tableParses, ibtVars, pureVars>>

\* get(key) as called inside the object, on cache dict and counter
\* lastUpdate: what it returns and the cache it leaves.  A decoded variable
\* is a number or a boolean, never null.
GetOn(key, dict, lastUpdate) ==
    LET r == getSessionInfoOn(key, dict, lastUpdate)
    IN  IF ~isInitialized \/ ~header
        THEN [kind |-> "undefined", dict |-> dict, last |-> lastUpdate,
              attempt |-> FALSE]
        ELSE IF key \in varHeadersDict
        THEN [kind |-> "telemetry", dict |-> dict, last |-> lastUpdate,
              attempt |-> FALSE]
        ELSE [kind |-> IF r.data = NoBytes THEN "null" ELSE "session",
              dict |-> r.dict, last |-> r.last, attempt |-> r.attempt]

\* An isConnected whose workaround takes 1 -> 2 only on a null SessionNum
IsConnected_NoTestFileShortcut ==
    LET connected == status = status_connected
        w1 == IF connected THEN 0 ELSE workaroundConnectedState
        w2 == IF w1 = 0 /\ ~connected THEN 1 ELSE w1
    IN  IF ~header
        THEN /\ ret' = [NoRet EXCEPT !.op = "isConnected", !.kind = "false"]
             /\ UNCHANGED <<telemVars, textVars, sdkVars, snap, capPartial, capBuf,
                            bracket, lastGood, dropped, shutDown, attemptAt, hdrVars, connVars,
                            tableParses, ibtVars, pureVars>>
        ELSE \E g1 \in {GetOn("SessionNum", sessionInfoDict,
                              lastSessionInfoUpdate)} :
             \E d1 \in {IF w2 = 1 THEN g1.dict ELSE sessionInfoDict},
                l1 \in {IF w2 = 1 THEN g1.last ELSE lastSessionInfoUpdate},
                w3 \in {IF w2 = 1 /\ g1.kind = "null"
                        THEN 2 ELSE w2} :
             \E g2 \in {GetOn("SessionNum", d1, l1)} :
             \E d2 \in {IF w3 = 2 THEN g2.dict ELSE d1},
                l2 \in {IF w3 = 2 THEN g2.last ELSE l1},
                w4 \in {IF w3 = 2 /\ g2.kind # "null" THEN 3 ELSE w3},
                attempted \in {(w2 = 1 /\ g1.attempt)
                                  \/ (w3 = 2 /\ g2.attempt)} :
             /\ workaroundConnectedState' = w4
             /\ sessionInfoDict' = d2
             /\ lastSessionInfoUpdate' = l2
             /\ attemptAt' = IF attempted
                             THEN [attemptAt EXCEPT !["SessionNum"] = l2]
                             ELSE attemptAt
             /\ ret' = [NoRet EXCEPT !.op = "isConnected",
                           !.kind = IF ~testFile /\ ~dataValidEvent THEN "null"
                                    ELSE IF connected \/ w4 = 3 THEN "true"
                                    ELSE "false"]
             /\ UNCHANGED <<telemVars, textVars, parseYamlAsync,
                            isInitialized, header, varHeaders,
                            varHeadersNames, varBufferLatest, frozenMemory,
                            snap, capPartial, capBuf, bracket, lastGood, dropped, shutDown, hdrVars,
                            testFile, dataValidEvent, windowsApi,
                            tableParses, ibtVars, pureVars>>

\* The isConnected getter: the workaround state machine, with the one or
\* two get('SessionNum') calls it makes, then the connected predicate
IsConnected ==
    LET connected == status = status_connected
        w1 == IF connected THEN 0 ELSE workaroundConnectedState
        w2 == IF w1 = 0 /\ ~connected THEN 1 ELSE w1
    IN  IF ~header
        THEN /\ ret' = [NoRet EXCEPT !.op = "isConnected", !.kind = "false"]
             /\ UNCHANGED <<telemVars, textVars, sdkVars, snap, capPartial, capBuf,
                            bracket, lastGood, dropped, shutDown, attemptAt, hdrVars, connVars,
                            tableParses, ibtVars, pureVars>>
        ELSE \E g1 \in {GetOn("SessionNum", sessionInfoDict,
                              lastSessionInfoUpdate)} :
             \E d1 \in {IF w2 = 1 THEN g1.dict ELSE sessionInfoDict},
                l1 \in {IF w2 = 1 THEN g1.last ELSE lastSessionInfoUpdate},
                w3 \in {IF w2 = 1 /\ (g1.kind = "null" \/ testFile)
                        THEN 2 ELSE w2} :
             \E g2 \in {GetOn("SessionNum", d1, l1)} :
             \E d2 \in {IF w3 = 2 THEN g2.dict ELSE d1},
                l2 \in {IF w3 = 2 THEN g2.last ELSE l1},
                w4 \in {IF w3 = 2 /\ g2.kind # "null" THEN 3 ELSE w3},
                attempted \in {(w2 = 1 /\ g1.attempt)
                                  \/ (w3 = 2 /\ g2.attempt)} :
             /\ workaroundConnectedState' = w4
             /\ sessionInfoDict' = d2
             /\ lastSessionInfoUpdate' = l2
             /\ attemptAt' = IF attempted
                             THEN [attemptAt EXCEPT !["SessionNum"] = l2]
                             ELSE attemptAt
             /\ ret' = [NoRet EXCEPT !.op = "isConnected",
                           !.kind = IF ~testFile /\ ~dataValidEvent THEN "null"
                                    ELSE IF connected \/ w4 = 3 THEN "true"
                                    ELSE "false"]
             /\ UNCHANGED <<telemVars, textVars, parseYamlAsync,
                            isInitialized, header, varHeaders,
                            varHeadersNames, varBufferLatest, frozenMemory,
                            snap, capPartial, capBuf, bracket, lastGood, dropped, shutDown, hdrVars,
                            testFile, dataValidEvent, windowsApi,
                            tableParses, ibtVars, pureVars>>

\* unfreezeVarBufferLatest()
UnfreezeVarBufferLatest ==
    /\ varBufferLatest' = 0
    /\ frozenMemory' = NoView
    /\ bracket' = {}
    /\ snap' = NoSnap
    /\ capPartial' = FALSE
    /\ capBuf' = 0
    /\ ret' = [NoRet EXCEPT !.op = "unfreeze", !.kind = "void",
                            !.prev = varBufferLatest]
    /\ UNCHANGED <<telemVars, textVars, parseYamlAsync, isInitialized, header,
                   varHeaders, varHeadersNames, lastSessionInfoUpdate,
                   sessionInfoDict, lastGood, dropped, shutDown, attemptAt, hdrVars, connVars,
                   tableParses, ibtVars, pureVars>>

\* What freezeVarBufferLatest() leaves when it captures header slot b
FreezeCaptures(b) ==
    /\ varBufferLatest' = b
    /\ frozenMemory' = [start |-> BufOffset(b), len |-> BufLen]
    /\ ret' = [NoRet EXCEPT !.op = "freeze", !.kind = "void", !.buf = b,
                            !.prev = varBufferLatest,
                            !.selTick = tick[b],
                            !.maxTick = MaxOf({tick[c] : c \in varBuf})]

\* A freeze that keeps the snapshot it already holds
FreezeVarBufferLatest_KeepExisting ==
    /\ IF header /\ numBuf > 0
       THEN IF varBufferLatest # 0
            THEN /\ FreezeCaptures(varBufferLatest)
                 /\ UNCHANGED <<snap, capPartial, capBuf>>
            ELSE /\ FreezeCaptures(Sorted(1))
                 /\ snap' = [i \in 0..(BufLen - 1) |->
                                mem[BufOffset(Sorted(1)) + i]]
                 /\ capPartial' = Partial(Sorted(1))
                 /\ capBuf' = Sorted(1)
       ELSE /\ varBufferLatest' = 0
            /\ frozenMemory' = NoView
            /\ snap' = NoSnap
            /\ capPartial' = FALSE
            /\ capBuf' = 0
            /\ ret' = [NoRet EXCEPT !.op = "freeze",
                          !.kind = IF header THEN "throw" ELSE "void",
                          !.prev = varBufferLatest]
    /\ bracket' = {}
    /\ UNCHANGED <<telemVars, textVars, parseYamlAsync, isInitialized, header,
                   varHeaders, varHeadersNames, lastSessionInfoUpdate,
                   sessionInfoDict, lastGood, dropped, shutDown, attemptAt, hdrVars, connVars,
                   tableParses, ibtVars, pureVars>>

\* freezeVarBufferLatest(): unfreeze, then freeze sorted[0]; with no buffer
\* sorted[0] is undefined and the call throws
FreezeVarBufferLatest ==
    /\ IF header /\ numBuf > 0
       THEN /\ FreezeCaptures(Sorted(1))
            /\ snap' = [i \in 0..(BufLen - 1) |-> mem[BufOffset(Sorted(1)) + i]]
            /\ capPartial' = Partial(Sorted(1))
            /\ capBuf' = Sorted(1)
       ELSE /\ varBufferLatest' = 0
            /\ frozenMemory' = NoView
            /\ snap' = NoSnap
            /\ capPartial' = FALSE
            /\ capBuf' = 0
            /\ ret' = [NoRet EXCEPT !.op = "freeze",
                          !.kind = IF header THEN "throw" ELSE "void",
                          !.prev = varBufferLatest]
    /\ bracket' = {}
    /\ UNCHANGED <<telemVars, textVars, parseYamlAsync, isInitialized, header,
                   varHeaders, varHeadersNames, lastSessionInfoUpdate,
                   sessionInfoDict, lastGood, dropped, shutDown, attemptAt, hdrVars, connVars,
                   tableParses, ibtVars, pureVars>>

(***************************************************************************)
(* IBT: the replay-file reader                                             *)
(***************************************************************************)
MaxRecords == 2     \* largest sessionRecordCount of a replay file

\* Replay files on disk.  File 1 and file 2 are recordings with different
\* descriptor tables; file 3 has a header with version 0 and no variables.
IbtFiles == 1..3

\* Header and DiskSubHeader fields, and the descriptor records, of file f
FileHeader(f) ==
    CASE f = 1 -> [version |-> 2, numVars |-> 2, bufLen |-> 2, bufOffset |-> 1,
                   sessionRecordCount |-> MaxRecords,
                   names |-> <<"Speed", "Throttle">>, offsets |-> <<0, 1>>]
      [] f = 2 -> [version |-> 2, numVars |-> 2, bufLen |-> 2, bufOffset |-> 0,
                   sessionRecordCount |-> 1,
                   names |-> <<"Brake", "Speed">>, offsets |-> <<0, 1>>]
      [] OTHER -> [version |-> 0, numVars |-> 0, bufLen |-> 0, bufOffset |-> 0,
                   sessionRecordCount |-> 0,
                   names |-> <<>>, offsets |-> <<>>]

\* The bytes of file f from the start of its first record: cell p of file f
\* holds 100 * f + p
FileData(f) ==
    LET h == FileHeader(f)
    IN  [p \in 1..(h.bufOffset + h.sessionRecordCount * h.bufLen) |->
            100 * f + (p - 1)]

\* Well-formed header: the invariants a usable file satisfies
WellFormed(f) == FileHeader(f).version >= 1 /\ FileHeader(f).numVars > 0

IbtKeys == {"Speed", "Throttle", "Brake", "Nope"}
IbtIndexes == (0 - 1)..MaxRecords

\* Names of the descriptor records of file f
FileNames(f) ==
    {FileHeader(f).names[i] : i \in 1..FileHeader(f).numVars}

\* this.varHeadersDict: built by getVarHeaders() only, from the file that
\* was open at that time
ibtVarHeadersDict ==
    IF ibtVarHeaders = 0 THEN {} ELSE FileNames(ibtVarHeaders)

\* varHeader.offset of key in this.varHeadersDict
IbtVarOffset(key) ==
    LET h == FileHeader(ibtVarHeaders)
        i == CHOOSE j \in 1..h.numVars : h.names[j] = key
    IN  h.offsets[i]

\* unpackValues(offset, typeChar, 1): the cell at a file offset; reading
\* past the end of the file raises a RangeError
IbtUnpack(offset) ==
    IF offset >= 0 /\ offset < Len(FileData(ibtHeader))
    THEN [kind |-> "value", val |-> FileData(ibtHeader)[offset + 1]]
    ELSE [kind |-> "throw", val |-> -1]

\* get(index, key)
IbtGetValue(index, key) ==
    LET h == FileHeader(ibtHeader)
        varOffset == IbtVarOffset(key) + h.bufOffset + index * h.bufLen
    IN  IF ibtHeader = 0 THEN [kind |-> "null", val |-> -1]
        ELSE IF index < 0 \/ index >= h.sessionRecordCount
        THEN [kind |-> "null", val |-> -1]
        ELSE IF key \notin ibtVarHeadersDict
        THEN [kind |-> "null", val |-> -1]
        ELSE IbtUnpack(varOffset)

\* The loop of getAll: records i, i + 1, ... up to sessionRecordCount
RECURSIVE IbtGetAllFrom(_, _)
IbtGetAllFrom(i, varOffset) ==
    LET h == FileHeader(ibtHeader)
    IN  IF i >= h.sessionRecordCount THEN <<>>
        ELSE <<IbtUnpack(varOffset + i * h.bufLen)>>
                 \o IbtGetAllFrom(i + 1, varOffset)

\* getAll(key)
IbtGetAllValues(key) ==
    LET h == FileHeader(ibtHeader)
        results == IbtGetAllFrom(0, IbtVarOffset(key) + h.bufOffset)
    IN  IF ibtHeader = 0 THEN [kind |-> "null", list |-> <<>>]
        ELSE IF key \notin ibtVarHeadersDict
        THEN [kind |-> "null", list |-> <<>>]
        ELSE IF \E i \in 1..Len(results) : results[i].kind = "throw"
        THEN [kind |-> "throw", list |-> <<>>]
        ELSE [kind |-> "list",
              list |-> [i \in 1..Len(results) |-> results[i].val]]

idleSdk == <<telemVars, textVars, sdkVars, snap, capPartial, capBuf, bracket,
             lastGood, dropped, shutDown,
             attemptAt, hdrVars, connVars, tableParses>>

\* open(ibtFilePath): loads the file and wraps it in Header / DiskSubHeader
IbtOpen(f) ==
    /\ ibtHeader' = f
    /\ ret' = [NoRet EXCEPT !.op = "ibt.open", !.kind = "void", !.file = f]
    /\ UNCHANGED <<ibtVarHeaders, ibtVarHeadersNames, ibtTableParses,
                   idleSdk, pureVars>>

\* close()
IbtClose ==
    /\ ibtHeader' = 0
    /\ ibtVarHeaders' = 0
    /\ ibtVarHeadersNames' = 0
    /\ ibtTableParses' = 0
    /\ ret' = [NoRet EXCEPT !.op = "ibt.close", !.kind = "void"]
    /\ UNCHANGED <<idleSdk, pureVars>>

\* The varHeadersNamesList getter, the only caller of getVarHeaders()
IbtVarHeadersNamesList ==
    /\ IF ibtHeader # 0 /\ ibtVarHeadersNames = 0
       THEN /\ ibtVarHeadersNames' = IF ibtVarHeaders = 0 THEN ibtHeader
                                     ELSE ibtVarHeaders
            /\ ibtVarHeaders' = IF ibtVarHeaders = 0 THEN ibtHeader
                                ELSE ibtVarHeaders
            /\ ibtTableParses' = IF ibtVarHeaders = 0 THEN ibtTableParses + 1
                                 ELSE ibtTableParses
       ELSE UNCHANGED <<ibtVarHeaders, ibtVarHeadersNames, ibtTableParses>>
    /\ ret' = [NoRet EXCEPT !.op = "ibt.varHeadersNamesList",
                  !.kind = IF ibtHeader = 0 THEN "null" ELSE "list",
                  !.file = ibtHeader]
    /\ UNCHANGED <<ibtHeader, idleSdk, pureVars>>

\* get(index, key)
IbtGet(index, key) ==
    /\ ret' = [NoRet EXCEPT !.op = "ibt.get", !.key = key, !.index = index,
                  !.kind = IbtGetValue(index, key).kind,
                  !.val = IbtGetValue(index, key).val,
                  !.file = ibtHeader]
    /\ UNCHANGED <<ibtVars, idleSdk, pureVars>>

\* getAll(key); list records what get(i, key) returns for each record i
IbtGetAll(key) ==
    /\ ret' = [NoRet EXCEPT !.op = "ibt.getAll", !.key = key,
                  !.kind = IbtGetAllValues(key).kind,
                  !.data = IbtGetAllValues(key).list,
                  !.list = [i \in 1..FileHeader(ibtHeader).sessionRecordCount
                               |-> IbtGetValue(i - 1, key)],
                  !.file = ibtHeader]
    /\ UNCHANGED <<ibtVars, idleSdk, pureVars>>

(***************************************************************************)
(* Specifications                                                          *)
(***************************************************************************)
InitSdk ==
    /\ isInitialized = FALSE
    /\ header = FALSE
    /\ varHeaders = FALSE
    /\ varHeadersNames = FALSE
    /\ varBufferLatest = 0
    /\ frozenMemory = NoView
    /\ lastSessionInfoUpdate = 0
    /\ sessionInfoDict = [k \in Keys |-> NoEntry]
    /\ ret = NoRet
    /\ snap = NoSnap
    /\ capPartial = FALSE
    /\ capBuf = 0
    /\ bracket = {}
    /\ lastGood = [k \in Keys |-> NoBytes]
    /\ dropped = {}
    /\ shutDown = FALSE
    /\ attemptAt = [k \in Keys |-> -1]
    /\ testFile = FALSE
    /\ dataValidEvent = FALSE
    /\ workaroundConnectedState = 0
    /\ tableParses = 0

\* A new IBT object, and no pure function under test
InitIbt ==
    /\ ibtHeader = 0
    /\ ibtVarHeaders = 0
    /\ ibtVarHeadersNames = 0
    /\ ibtTableParses = 0

InitPure ==
    /\ arg = NoArg
    /\ out = NoOut

InitRegion ==
    /\ tick = [b \in Bufs |-> 0]
    /\ mem = [a \in Addrs |-> 0]
    /\ wbuf = 0
    /\ wtick = 0
    /\ wpos = 0
    /\ wbumped = FALSE

\* Telemetry: a fresh region with 0..MaxNumBuf buffers, a static text block
Init ==
    /\ version = 1
    /\ status = status_connected
    /\ numVars = MaxNumVars
    /\ windowsApi = FALSE
    /\ numBuf \in 0..MaxNumBuf
    /\ InitRegion
    /\ sessionInfoUpdate = 0
    /\ text = BlkA
    /\ parseYamlAsync = FALSE
    /\ InitSdk
    /\ InitIbt
    /\ InitPure

Next ==
    \/ \E b \in Bufs : WriterBegin(b)
    \/ WriterBump
    \/ WriterWriteCell
    \/ WriterEnd
    \/ \E withTestFile \in BOOLEAN : Startup(withTestFile)
    \/ Shutdown
    \/ VarHeadersNamesList
    \/ \E key \in VarNames : Get(key)
    \/ FreezeVarBufferLatest
    \/ UnfreezeVarBufferLatest

Spec == Init /\ [][Next]_vars

\* Session info: one idle tick buffer, a changing text block and counter,
\* either parse mode
InitSession ==
    /\ version = 1
    /\ status = status_connected
    /\ numVars = MaxNumVars
    /\ windowsApi = FALSE
    /\ numBuf = 1
    /\ InitRegion
    /\ sessionInfoUpdate \in 0..1
    /\ text \in Blocks
    /\ parseYamlAsync \in BOOLEAN
    /\ InitSdk
    /\ InitIbt
    /\ InitPure

NextSession ==
    \/ \E blk \in Blocks : WriteText(blk)
    \/ AdvanceUpdate
    \/ \E withTestFile \in BOOLEAN : Startup(withTestFile)
    \/ Shutdown
    \/ \E key \in SessionKeys \cup UnknownKeys : Get(key)

SpecSession == InitSession /\ [][NextSession]_vars

\* Connection: regions with any header (version, status flag, descriptor
\* and buffer counts), with or without the Windows bindings
Versions == 0..2
StatusFlags == {0, status_connected}

InitConn ==
    /\ version \in Versions
    /\ status \in StatusFlags
    /\ numVars \in 0..MaxNumVars
    /\ windowsApi \in BOOLEAN
    /\ numBuf \in 0..1
    /\ InitRegion
    /\ sessionInfoUpdate = 0
    /\ text = BlkA
    /\ parseYamlAsync = FALSE
    /\ InitSdk
    /\ InitIbt
    /\ InitPure

NextConn ==
    \/ \E s \in StatusFlags : SetStatus(s)
    \/ \E withTestFile \in BOOLEAN : Startup(withTestFile)
    \/ Shutdown
    \/ VarHeadersNamesList
    \/ IsConnected
    \/ \E key \in {"Speed", "SessionNum", "WeekendInfo"} : Get(key)

SpecConn == InitConn /\ [][NextConn]_vars

\* Replay: an IBT object and the files on disk; the IRSDK object is idle
InitIBT ==
    /\ version = 1
    /\ status = status_connected
    /\ numVars = MaxNumVars
    /\ windowsApi = FALSE
    /\ numBuf = 1
    /\ InitRegion
    /\ sessionInfoUpdate = 0
    /\ text = BlkA
    /\ parseYamlAsync = FALSE
    /\ InitSdk
    /\ InitIbt
    /\ InitPure

NextIBT ==
    \/ \E f \in IbtFiles : IbtOpen(f)
    \/ IbtClose
    \/ IbtVarHeadersNamesList
    \/ \E index \in IbtIndexes, key \in IbtKeys : IbtGet(index, key)
    \/ \E key \in IbtKeys : IbtGetAll(key)

SpecIBT == InitIBT /\ [][NextIBT]_vars

\* The objects are idle while a function is called on its own
InitIdle ==
    /\ version = 1
    /\ status = status_connected
    /\ numVars = MaxNumVars
    /\ windowsApi = FALSE
    /\ numBuf = 1
    /\ InitRegion
    /\ sessionInfoUpdate = 0
    /\ text = BlkA
    /\ parseYamlAsync = FALSE
    /\ InitSdk
    /\ InitIbt

\* extractYamlSection on its own: a region made of bytes in front of the
\* text block, an optional earlier section, a header line or a damaged one,
\* content bytes, a tail, and bytes behind the block.  A header line can
\* straddle the start of the block (its newline in front of it) and the end
\* of the block (its last newline behind it).
MaxContent == 3     \* longest content of the section looked for

SeqsUpTo(A, n) == UNION {[1..k -> A] : k \in 0..n}

ExtractArgs ==
    {[fn |-> "extractYamlSection",
      sharedMem |-> front \o lead \o hdr \o content \o tail \o behind,
      offset |-> Len(front),
      len |-> Len(lead) + Len(hdr) + Len(content) + Len(tail),
      sectionName |-> "WeekendInfo"] :
        front \in {<<>>, <<"h">>, <<NL>>},
        lead \in {<<>>, <<NL, "X", "X", ":", NL, " ", "a", NL, NL>>},
        hdr \in {<<NL, "W", "I", ":", NL>>, <<"W", "I", ":", NL>>},
        content \in SeqsUpTo({" ", "a", NL}, MaxContent),
        tail \in {<<>>, <<NL>>, <<NL, NL>>, <<NL, NL, NL, "S", ":", NL>>,
                  <<NL, "W", "I", ":">>},
        behind \in {<<>>, <<NL, NL>>}}

InitExtract ==
    /\ InitIdle
    /\ arg \in ExtractArgs
    /\ out = NoOut

CallExtract ==
    /\ arg.fn = "extractYamlSection"
    /\ ~out.done
    /\ out' = [done |-> TRUE,
               result |-> extractYamlSection(arg.sharedMem, arg.offset,
                                             arg.len, arg.sectionName)]
    /\ UNCHANGED <<idleSdk, ret, ibtVars, arg>>

NextExtract == CallExtract

SpecExtract == InitExtract /\ [][NextExtract]_vars

\* ---------------------------------------------------------------------
\* The value codec: unpackValue of the IRSDK object (unpackSingleValue of
\* the IBT object has the same body).  A buffer is a sequence of bytes
\* 0..255, byte k of the buffer is buffer[k + 1].  Decoded numbers:
\*   int32    an integer;
\*   uint32   <<hi, lo>>, the number hi * 65536 + lo (it can exceed the
\*            integers of the checker);
\*   float32  NaN, or the number given by its sign, biased exponent and
\*            fraction: different non-NaN bit patterns are different
\*            numbers (+0 and -0 included), every NaN pattern is the one
\*            value NaN;
\*   float64  the same, the 52-bit fraction written as 7 digits
\*            <<4 bits, byte, byte, byte, byte, byte, byte>>.
VAR_TYPE_MAP == <<"c", "?", "i", "I", "f", "d">>

NaN == [nan |-> TRUE]

readUInt8(buffer, offset) == buffer[offset + 1]

readInt8(buffer, offset) ==
    IF buffer[offset + 1] >= 128 THEN buffer[offset + 1] - 256
                                 ELSE buffer[offset + 1]

readInt32LE(buffer, offset) ==
    readInt8(buffer, offset + 3) * 16777216
        + buffer[offset + 3] * 65536
        + buffer[offset + 2] * 256
        + buffer[offset + 1]

readUInt32LE(buffer, offset) ==
    <<buffer[offset + 4] * 256 + buffer[offset + 3],
      buffer[offset + 2] * 256 + buffer[offset + 1]>>

readFloatLE(buffer, offset) ==
    LET sign == buffer[offset + 4] \div 128
        exp  == (buffer[offset + 4] % 128) * 2 + buffer[offset + 3] \div 128
        man  == (buffer[offset + 3] % 128) * 65536
                    + buffer[offset + 2] * 256 + buffer[offset + 1]
    IN  IF exp = 255 /\ man # 0
        THEN NaN
        ELSE [nan |-> FALSE, sign |-> sign, exp |-> exp, man |-> man]

readDoubleLE(buffer, offset) ==
    LET sign == buffer[offset + 8] \div 128
        exp  == (buffer[offset + 8] % 128) * 16 + buffer[offset + 7] \div 16
        man  == <<buffer[offset + 7] % 16, buffer[offset + 6],
                  buffer[offset + 5], buffer[offset + 4],
                  buffer[offset + 3], buffer[offset + 2],
                  buffer[offset + 1]>>
    IN  IF exp = 2047 /\ man # <<0, 0, 0, 0, 0, 0, 0>>
        THEN NaN
        ELSE [nan |-> FALSE, sign |-> sign, exp |-> exp, man |-> man]

getTypeSize(typeChar) ==
    CASE typeChar \in {"i", "I", "f"} -> 4
      [] typeChar = "d" -> 8
      [] typeChar \in {"?", "c"} -> 1
      [] OTHER -> 0

unpackValue_SignedChar(buffer, offset, typeChar) ==
    CASE typeChar = "i" -> readInt32LE(buffer, offset)
      [] typeChar = "I" -> readUInt32LE(buffer, offset)
      [] typeChar = "f" -> readFloatLE(buffer, offset)
      [] typeChar = "d" -> readDoubleLE(buffer, offset)
      [] typeChar = "?" -> readUInt8(buffer, offset) # 0
      [] typeChar = "c" -> readInt8(buffer, offset)
      [] OTHER -> 0

unpackValue(buffer, offset, typeChar) ==
    CASE typeChar = "i" -> readInt32LE(buffer, offset)
      [] typeChar = "I" -> readUInt32LE(buffer, offset)
      [] typeChar = "f" -> readFloatLE(buffer, offset)
      [] typeChar = "d" -> readDoubleLE(buffer, offset)
      [] typeChar = "?" -> readUInt8(buffer, offset) # 0
      [] typeChar = "c" -> readUInt8(buffer, offset)
      [] OTHER -> 0

\* The repository only decodes.  The encoder is the writer the layout
\* implies: the little-endian bytes of the number in the width of its tag,
\* 1 and 0 for true and false, the quiet NaN for NaN.
packValue(value, typeChar) ==
    CASE typeChar = "i" ->
            <<value % 256, (value \div 256) % 256,
              (value \div 65536) % 256, (value \div 16777216) % 256>>
      [] typeChar = "I" ->
            <<value[2] % 256, value[2] \div 256,
              value[1] % 256, value[1] \div 256>>
      [] typeChar = "f" ->
            IF value.nan
            THEN <<0, 0, 192, 127>>
            ELSE <<value.man % 256, (value.man \div 256) % 256,
                   (value.exp % 2) * 128 + value.man \div 65536,
                   value.sign * 128 + value.exp \div 2>>
      [] typeChar = "d" ->
            IF value.nan
            THEN <<0, 0, 0, 0, 0, 0, 248, 127>>
            ELSE <<value.man[7], value.man[6], value.man[5], value.man[4],
                   value.man[3], value.man[2],
                   (value.exp % 16) * 16 + value.man[1],
                   value.sign * 128 + value.exp \div 16>>
      [] typeChar = "?" -> <<IF value THEN 1 ELSE 0>>
      [] typeChar = "c" -> <<value>>
      [] OTHER -> <<>>

\* unpackValue on its own: a value of each tag at each offset of a buffer,
\* the bytes around the value filled with a pad byte
MaxOffset == 1      \* largest offset of the value in the buffer

ByteSamples == {0, 1, 2, 127, 128, 255}

Payloads(typeChar) ==
    CASE getTypeSize(typeChar) = 8 ->
            {[i \in 1..8 |-> IF i <= 4 THEN fill ELSE top[i - 4]] :
                fill \in {0, 1, 255}, top \in [1..4 -> ByteSamples]}
      [] OTHER -> [1..getTypeSize(typeChar) -> ByteSamples]

CodecArg(payload, offset, pad, typeChar) ==
    [fn |-> "unpackValue",
     buffer |-> [i \in 1..(MaxOffset + getTypeSize(typeChar))
                   |-> IF i > offset /\ i <= offset + getTypeSize(typeChar)
                       THEN payload[i - offset]
                       ELSE pad],
     offset |-> offset,
     typeChar |-> typeChar]

InitCodec ==
    /\ InitIdle
    /\ \E t \in 1..Len(VAR_TYPE_MAP) :
       \E payload \in Payloads(VAR_TYPE_MAP[t]),
          offset \in 0..MaxOffset,
          pad \in {0, 255} :
            arg = CodecArg(payload, offset, pad, VAR_TYPE_MAP[t])
    /\ out = NoOut

CallUnpack ==
    /\ arg.fn = "unpackValue"
    /\ ~out.done
    /\ out' = [done |-> TRUE,
               value |-> unpackValue(arg.buffer, arg.offset, arg.typeChar)]
    /\ UNCHANGED <<idleSdk, ret, ibtVars, arg>>

NextCodec == CallUnpack

SpecCodec == InitCodec /\ [][NextCodec]_vars

\* ---------------------------------------------------------------------
\* The replay reader's decoder (ibt.ts): the same switch on its own buffer
ibtGetTypeSize(typeChar) ==
    CASE typeChar \in {"i", "I", "f"} -> 4
      [] typeChar = "d" -> 8
      [] typeChar \in {"?", "c"} -> 1
      [] OTHER -> 0

unpackSingleValue(sharedMem, offset, typeChar) ==
    CASE typeChar = "i" -> readInt32LE(sharedMem, offset)
      [] typeChar = "I" -> readUInt32LE(sharedMem, offset)
      [] typeChar = "f" -> readFloatLE(sharedMem, offset)
      [] typeChar = "d" -> readDoubleLE(sharedMem, offset)
      [] typeChar = "?" -> readUInt8(sharedMem, offset) # 0
      [] typeChar = "c" -> readUInt8(sharedMem, offset)
      [] OTHER -> 0

\* ---------------------------------------------------------------------
\* Reads of a descriptor, at the level of bytes.  buffer.readInt32LE and
\* the other reads of the runtime throw a RangeError unless
\* 0 <= offset <= buffer.length - size; a call that throws returns nothing.
RangeError == "RangeError"

outOfRange(buffer, offset, size) == offset < 0 \/ offset + size > Len(buffer)

Thrown == [threw |-> TRUE, value |-> RangeError]

\* The element loop of IRSDK.get: one unpackValue for count 1, else one per
\* element, getTypeSize apart
getElements(memory, offset, typeChar, count) ==
    LET size == getTypeSize(typeChar)
        at(i) == offset + (i - 1) * size
        n == IF count = 1 THEN 1 ELSE count
    IN  IF size > 0 /\ \E i \in 1..n : outOfRange(memory, at(i), size)
        THEN Thrown
        ELSE [threw |-> FALSE,
              value |-> IF count = 1 THEN unpackValue(memory, offset, typeChar)
                        ELSE [i \in 1..n |->
                                 unpackValue(memory, at(i), typeChar)]]

\* IBT.unpackValues on this.sharedMem
unpackValues(sharedMem, offset, typeChar, count) ==
    LET size == ibtGetTypeSize(typeChar)
        at(i) == offset + (i - 1) * size
        n == IF count = 1 THEN 1 ELSE count
    IN  IF size > 0 /\ \E i \in 1..n : outOfRange(sharedMem, at(i), size)
        THEN Thrown
        ELSE [threw |-> FALSE,
              value |-> IF count = 1
                        THEN unpackSingleValue(sharedMem, offset, typeChar)
                        ELSE [i \in 1..n |->
                                 unpackSingleValue(sharedMem, at(i), typeChar)]]

\* A frozen VarBuffer that goes on reading the whole region
getMemory_WholeRegion(isFrozen, sharedMem, bufOffset, bufLen) == sharedMem

\* VarBuffer.getMemory(): _frozenMemory, the slice freeze() took, when
\* frozen, else the region
getMemory(isFrozen, sharedMem, bufOffset, bufLen) ==
    IF isFrozen THEN Slice(sharedMem, bufOffset, bufOffset + bufLen)
    ELSE sharedMem

\* VarBuffer.bufOffset
frozenBufOffset(isFrozen, bufOffset) == IF isFrozen THEN 0 ELSE bufOffset

\* IRSDK.get(key) on a descriptor of varHeadersDict
irsdkGetValue(a) ==
    getElements(getMemory(a.frozen, a.sharedMem, a.bufOffset, a.bufLen),
                frozenBufOffset(a.frozen, a.bufOffset) + a.varOffset,
                a.typeChar, a.count)

\* IBT.get(index, key) on a descriptor of varHeadersDict and an index in
\* range
ibtGetValueBytes(a) ==
    unpackValues(a.sharedMem,
                 a.varOffset + a.bufOffset + a.index * a.bufLen,
                 a.typeChar, a.count)

\* The reads on their own: a region (or a replay file) of one byte of
\* header and two strides, byte k holding k; a descriptor of each type tag,
\* of an unknown tag, at each offset up to one past the stride, of one or
\* two elements
StrideLen == 9      \* header.bufLen, in bytes

TypeChars == {VAR_TYPE_MAP[t] : t \in 1..Len(VAR_TYPE_MAP)} \cup {"undefined"}

ReadArg(store, slot, varOffset, typeChar, count) ==
    [fn |-> "get", store |-> store,
     sharedMem |-> [i \in 1..(1 + 2 * StrideLen) |-> i],
     frozen |-> (store = "frozen"),
     bufOffset |-> IF store = "file" THEN 1 ELSE 1 + slot * StrideLen,
     index |-> IF store = "file" THEN slot ELSE 0,
     bufLen |-> StrideLen,
     varOffset |-> varOffset, typeChar |-> typeChar, count |-> count]

InitRead ==
    /\ InitIdle
    /\ \E store \in {"region", "frozen", "file"}, slot \in 0..1,
          varOffset \in 0..StrideLen, typeChar \in TypeChars,
          count \in 1..2 :
            arg = ReadArg(store, slot, varOffset, typeChar, count)
    /\ out = NoOut

CallGet ==
    /\ arg.fn = "get"
    /\ ~out.done
    /\ \E r \in {IF arg.store = "file" THEN ibtGetValueBytes(arg)
                 ELSE irsdkGetValue(arg)} :
          out' = [done |-> TRUE, threw |-> r.threw, value |-> r.value]
    /\ UNCHANGED <<idleSdk, ret, ibtVars, arg>>

NextRead == CallGet

SpecRead == InitRead /\ [][NextRead]_vars

\* ---------------------------------------------------------------------
\* translateYamlData on numbered bytes.  A buffer is a sequence of bytes
\* 0..255, a string a sequence of code points.
\* Object.entries(YAML_TRANSLATER): the pairs <<from, to>>, in key order
YamlTranslaterEntries ==
    <<<<129, 32>>, <<141, 32>>, <<143, 32>>, <<144, 32>>, <<157, 32>>>>

\* Buffer.from(data): a new buffer with a copy of the bytes of data.  The
\* two buffers of the function: data, the argument, and buffer, the local;
\* shared says that they are one memory.
bufferFrom(data) == [data |-> data, buffer |-> data, shared |-> FALSE]

\* buffer[i] = to for every i with buffer[i] = from
overwrite(h, from, to) ==
    LET written == [i \in 1..Len(h.buffer) |->
                       IF h.buffer[i] = from THEN to ELSE h.buffer[i]]
    IN  [h EXCEPT !.buffer = written,
                  !.data = IF h.shared THEN written ELSE h.data]

\* The loops over the entries from entry k on
RECURSIVE applyTranslater(_, _)
applyTranslater(h, k) ==
    IF k > Len(YamlTranslaterEntries) THEN h
    ELSE applyTranslater(overwrite(h, YamlTranslaterEntries[k][1],
                                   YamlTranslaterEntries[k][2]),
                         k + 1)

\* A decoding of the bytes as UTF-8: a byte above 127 that starts no valid
\* sequence becomes U+FFFD
toStringLatin1_AsUtf8(buffer) ==
    [i \in 1..Len(buffer) |-> IF buffer[i] > 127 THEN 65533 ELSE buffer[i]]

\* buffer.toString('latin1'): the code point of each byte's number
toStringLatin1(buffer) == [i \in 1..Len(buffer) |-> buffer[i]]

\* translateYamlData(data): the string returned and the bytes data holds
\* after the call
translateYamlDataBytes(data) ==
    LET h == applyTranslater(bufferFrom(data), 1)
        nulls == {i \in 1..Len(h.buffer) : h.buffer[i] = 0}
        cut == IF nulls = {} THEN h.buffer
               ELSE SubSeq(h.buffer, 1, MinOf(nulls) - 1)
    IN  [str |-> toStringLatin1(cut), data |-> h.data]

\* translateYamlData on its own: every sequence of up to MaxData bytes out
\* of the translated bytes, the zero byte, and other bytes below and above
\* 128
MaxData == 3        \* longest byte sequence translated

TranslateBytes == {0, 32, 65, 128, 129, 141, 143, 144, 157, 255}

InitTranslate ==
    /\ InitIdle
    /\ \E n \in 0..MaxData : \E data \in [1..n -> TranslateBytes] :
          arg = [fn |-> "translateYamlData", data |-> data]
    /\ out = NoOut

CallTranslate ==
    /\ arg.fn = "translateYamlData"
    /\ ~out.done
    /\ \E r \in {translateYamlDataBytes(arg.data)} :
          out' = [done |-> TRUE, str |-> r.str, data |-> r.data]
    /\ UNCHANGED <<idleSdk, ret, ibtVars, arg>>

NextTranslate == CallTranslate

SpecTranslate == InitTranslate /\ [][NextTranslate]_vars

(***************************************************************************)
(* Claims: connection and startup                                          *)
(***************************************************************************)
\* C11: isConnected is true only when the region is initialized (startup
\* succeeded), a fresh-data source is available (test file or data-valid
\* event), and the status flag says connected or the workaround state is 3.
C11_ConnectedOnlyWhenInitialized ==
    (ret.op = "isConnected" /\ ret.kind = "true")
        => /\ isInitialized
           /\ (testFile \/ dataValidEvent)
           /\ (status = status_connected \/ workaroundConnectedState = 3)

\* C12: startup() returns true only for a region with version >= 1 and
\* numVars > 0; for any other region it returns false and every later get
\* returns absence.
C12_StartupNeedsVersionAndVars ==
    /\ (ret.op = "startup" /\ ret.kind = "true")
           => (version >= 1 /\ numVars > 0)
    /\ (ret.op = "get" /\ ~(version >= 1 /\ numVars > 0))
           => ret.kind \in {"undefined", "null"}

(***************************************************************************)
(* Claims: the replay-file reader                                          *)
(***************************************************************************)
\* C13: open() on a file whose header violates version >= 1 or numVars > 0
\* reports an open failure and leaves the reader unopened, with no header.
C13_OpenRejectsMalformedHeader ==
    (ret.op = "ibt.open" /\ ~WellFormed(ret.file))
        => (ret.kind = "throw" /\ ibtHeader = 0)

\* C14: on an open file get(index, name) never throws; it returns null for
\* every index outside [0, sessionRecordCount) and every name that is not in
\* the file's descriptor table, and a value for every index inside the range
\* and every name of the table.
C14_GetBoundaries ==
    (ret.op = "ibt.get" /\ ret.file # 0)
        => LET inRange == /\ ret.index >= 0
                          /\ ret.index < FileHeader(ret.file).sessionRecordCount
               known == ret.key \in FileNames(ret.file)
           IN  /\ ret.kind # "throw"
               /\ (~inRange \/ ~known) => ret.kind = "null"
               /\ (inRange /\ known) => ret.kind = "value"

\* C15: for every name of the descriptor table of an open file, getAll(name)
\* returns a sequence of length sessionRecordCount whose i-th element is what
\* get(i, name) returns, in increasing index order.
C15_GetAllEqualsGets ==
    (ret.op = "ibt.getAll" /\ ret.file # 0 /\ ret.key \in FileNames(ret.file))
        => /\ ret.kind = "list"
           /\ Len(ret.data) = FileHeader(ret.file).sessionRecordCount
           /\ \A i \in 1..Len(ret.data) :
                  ret.list[i].kind = "value" /\ ret.data[i] = ret.list[i].val

(***************************************************************************)
(* Claims: freeze and buffer selection                                     *)
(***************************************************************************)
\* C1: every get of a telemetry variable between freezeVarBufferLatest() and
\* the next unfreeze returns the value the variable had in the selected
\* buffer at the instant of the freeze, whatever the writer writes meanwhile.
C1_FrozenGetReturnsSnapshot ==
    (ret.op = "get" /\ ret.kind = "telemetry" /\ ret.frozen)
        => ret.val = snap[VarOffset(ret.key)]

\* C2: inside one freeze bracket no two gets return data of different ticks,
\* and no get returns data of a buffer that was half written when captured.
C2_BracketObservesOneCompleteTick ==
    (varBufferLatest # 0 /\ bracket # {})
        => (Cardinality(bracket) = 1 /\ ~capPartial)

\* C3: with no freeze active, get of a telemetry variable reads the buffer
\* with the second-highest tick counter when there are at least 2 buffers,
\* and the only buffer when there is 1.
C3_UnfrozenGetReadsSecondHighest ==
    (ret.op = "get" /\ ret.init /\ ret.key \in VarNames /\ ~ret.frozen)
        => (ret.kind = "telemetry" /\ ret.selTick = ret.secondTick)

\* C4: with at least 2 buffers, an unfrozen get never returns bytes of a
\* buffer that carries the maximum tick counter while it is half written,
\* ties of tick counters included.
C4_UnfrozenGetNeverReadsHalfWrittenMax ==
    (ret.op = "get" /\ ret.kind = "telemetry" /\ ~ret.frozen /\ numBuf >= 2)
        => ~(ret.selTick = ret.maxTick /\ ret.selPartial)

\* C5: after a successful startup, get of a name of the descriptor table
\* returns the decoded variable whether or not varHeadersNamesList was read.
C5_LookupBuiltOnFirstGet ==
    (ret.op = "get" /\ ret.init /\ ret.key \in VarNames)
        => ret.kind = "telemetry"

\* C6: get never throws and returns undefined when the region is not
\* initialized or the key names neither a variable nor a section with a value.
C6_AbsenceIsUndefined ==
    (ret.op = "get" /\ (~ret.init \/ ret.key \in UnknownKeys))
        => ret.kind = "undefined"

(***************************************************************************)
(* Claims: session-info cache                                              *)
(***************************************************************************)
\* C7: a value is never returned by a get that observes an update counter
\* past the generation the value was cached at, unless an extraction of the
\* key's section has been attempted at the observed generation.
C7_NoStaleValueWithoutRefresh ==
    (ret.op = "get" /\ ret.kind = "session")
        => attemptAt[ret.key] = ret.obs

\* C7 witness: a key parsed in an earlier generation is requested after the
\* counter advanced, and the request re-extracts and returns a value
C7_Witness ==
    /\ ret.op = "get" /\ ret.kind = "session"
    /\ ret.advanced /\ ret.extracted
    /\ ret.goodBefore # NoBytes
    /\ ret.obs > 0

\* C8: once a key has been parsed successfully, a get that does not find its
\* section in the text block returns the previously parsed value; absence is
\* returned only when no last-known-good value exists.
C8_MissingSectionFallsBack ==
    (ret.op = "get" /\ ret.init /\ ret.key \in SessionKeys /\ ~ret.found)
        => IF ret.goodBefore # NoBytes
           THEN ret.kind = "session" /\ ret.data = ret.goodBefore
           ELSE ret.kind = "null"

\* C9: when the parse of a freshly extracted, changed section fails, or
\* succeeds without the requested key, the same get returns the key's
\* last-known-good value if one exists.
C9_MalformedTextFallsBack ==
    (ret.op = "get" /\ ret.parseRes \in {"fail", "nokey"}
        /\ ret.goodBefore # NoBytes)
        => (ret.kind = "session" /\ ret.data = ret.goodBefore)

C16_ReentrantFreezeHoldsOneSnapshot ==
    /\ (varBufferLatest = 0) <=> (frozenMemory = NoView)
    /\ varBufferLatest = capBuf
    /\ (ret.op = "freeze" /\ ret.kind = "void" /\ header)
           => /\ capBuf = ret.buf
              /\ ret.selTick = ret.maxTick
              /\ frozenMemory = [start |-> BufOffset(ret.buf), len |-> BufLen]
    /\ (ret.op = "get" /\ ret.kind = "telemetry" /\ capBuf # 0)
           => (ret.frozen /\ ret.buf = capBuf)
    /\ ret.op = "unfreeze"
           => (varBufferLatest = 0 /\ frozenMemory = NoView)

\* C16 witness: a freeze issued inside a freeze bracket replaced the
\* snapshot of one buffer by a snapshot of another
C16_Witness ==
    /\ ret.op = "freeze" /\ ret.kind = "void"
    /\ ret.prev # 0 /\ ret.prev # ret.buf
    /\ varBufferLatest = ret.buf
    /\ frozenMemory = [start |-> BufOffset(ret.buf), len |-> BufLen]

(***************************************************************************)
(* Claims: extractYamlSection                                              *)
(***************************************************************************)
\* The text block of a call: bytes [offset, offset + len) of the region
BlockOf(a) == SubSeq(a.sharedMem, a.offset + 1, a.offset + a.len)

\* 1-based positions of the block at which the header line of the section
\* starts, leading newline included
HeaderAt(a) ==
    LET pat == <<NL>> \o NameBytes(a.sectionName) \o <<":", NL>>
    IN  {i \in 1..(Len(BlockOf(a)) - Len(pat) + 1) :
            SubSeq(BlockOf(a), i, i + Len(pat) - 1) = pat}

\* Positions of the block at which an empty line starts: a newline that
\* directly follows a newline
EmptyLineAt(a) ==
    {p \in 2..Len(BlockOf(a)) : BlockOf(a)[p] = NL /\ BlockOf(a)[p - 1] = NL}

DelimitedSection(a) ==
    /\ HeaderAt(a) # {}
    /\ \E p \in EmptyLineAt(a) :
           p - 1 >= MinOf(HeaderAt(a)) + 2 /\ p < Len(BlockOf(a))

C18_CacheLifecycle ==
    /\ [](/\ ret.op = "shutdown" => \A k \in Keys : ~sessionInfoDict[k].has
          /\ (ret.op = "get" /\ ret.kind = "session")
                 => ret.data = lastGood[ret.key])
    /\ [][\A k \in Keys :
             /\ (sessionInfoDict'[k].has /\ ~sessionInfoDict[k].has)
                    => \/ ret'.op = "get" /\ ret'.key = k
                       \/ ret'.op = "isConnected" /\ k = "SessionNum"
             /\ (sessionInfoDict[k].has /\ ~sessionInfoDict'[k].has)
                    => ret'.op = "shutdown"]_vars

\* C18 witness: a key whose parsed value a shutdown dropped is requested in
\* the reopened region while its section is missing: a new entry exists and
\* the get returns null, not the value parsed before the shutdown
C18_Witness ==
    /\ ret.op = "get" /\ ret.init /\ ret.key \in dropped
    /\ ~ret.found /\ ret.kind = "null"
    /\ sessionInfoDict[ret.key].has
    /\ sessionInfoDict[ret.key].dataLast = NoBytes

\* C19: between a successful open (startup() of the IRSDK object, open() of
\* the IBT object) and the matching shutdown() or close(), the descriptor
\* records are parsed at most once, whatever is called, and the set of names
\* the lookup resolves stays the same.
C19_TableOnceAndNamesFixed ==
    /\ [](tableParses <= 1 /\ ibtTableParses <= 1)
    /\ [][/\ ((isInitialized /\ isInitialized')
                 => (varHeadersDict' = varHeadersDict))
           /\ ((ibtHeader # 0 /\ ibtHeader' = ibtHeader)
                 => (ibtVarHeadersDict' = ibtVarHeadersDict))]_vars

\* The bytes the decoder was given: getTypeSize bytes from the offset
BytesAt(a) == SubSeq(a.buffer, a.offset + 1, a.offset + getTypeSize(a.typeChar))

\* C20 (as stated): for each of the six type tags and every valid offset,
\* decoding the bytes at the offset and encoding the decoded value again
\* gives the same bytes.
C20_RoundTripAllTags ==
    (out.done /\ arg.fn = "unpackValue")
        => packValue(out.value, arg.typeChar) = BytesAt(arg)

\* C20 (amended): the round trip gives the same bytes for char, int32 and
\* uint32 always, for bool when the byte is 0 or 1, and for float32 and
\* float64 when the bytes are not a NaN pattern.
C20_RoundTripWhereDecodingIsInjective ==
    (/\ out.done
     /\ arg.fn = "unpackValue"
     /\ \/ arg.typeChar \in {"c", "i", "I"}
        \/ arg.typeChar = "?" /\ BytesAt(arg)[1] \in {0, 1}
        \/ arg.typeChar \in {"f", "d"} /\ out.value # NaN)
        => packValue(out.value, arg.typeChar) = BytesAt(arg)

C20_Witness ==
    /\ out.done
    /\ arg.fn = "unpackValue"
    /\ arg.typeChar = "f"
    /\ arg.offset = 1
    /\ BytesAt(arg) = <<1, 2, 127, 128>>
    /\ out.value = [nan |-> FALSE, sign |-> 1, exp |-> 0, man |-> 8323585]
    /\ packValue(out.value, "f") = <<1, 2, 127, 128>>

(***************************************************************************)
(* Claims: session-info cache, generations                                 *)
(***************************************************************************)
\* C21: a call that observes an update counter greater than the last observed
\* one empties the current value of every cache entry and makes each non-empty
\* current value that entry's last-known-good value (the requested key may
\* then receive the value of the attempt made at the new counter); and a
\* last-known-good value, once set, is emptied by no step but a shutdown.
C21_InvalidationKeepsLastGood ==
    [][/\ (lastSessionInfoUpdate' > lastSessionInfoUpdate)
            => \A k \in Keys :
                 /\ sessionInfoDict'[k].dataLast
                        = IF sessionInfoDict[k].data # NoBytes
                          THEN sessionInfoDict[k].data
                          ELSE sessionInfoDict[k].dataLast
                 /\ (sessionInfoDict'[k].data # NoBytes)
                        => /\ attemptAt'[k] = lastSessionInfoUpdate'
                           /\ attemptAt'[k] # attemptAt[k]
       /\ \A k \in Keys :
            (sessionInfoDict[k].dataLast # NoBytes /\ ret'.op # "shutdown")
                => (sessionInfoDict'[k].dataLast # NoBytes)]_vars

\* C21 witness: a get for another key observed the advance; the entry that
\* held a current value is empty and the value is its last-known-good
C21_Witness ==
    /\ ret.op = "get" /\ ret.advanced /\ ret.key = "Nope"
    /\ sessionInfoDict["WeekendInfo"].data = NoBytes
    /\ sessionInfoDict["WeekendInfo"].dataLast # NoBytes
    /\ sessionInfoDict["WeekendInfo"].dataLast = lastGood["WeekendInfo"]

\* C22: while the counter has not advanced past the last observed one, a get
\* for a key with a cached current value returns that value, extracts and
\* parses nothing and leaves the entry (recorded bytes, current value,
\* last-known-good value) as it was, whatever the section bytes now are.
C22_CachedValueServedUntouched ==
    [][\A k \in Keys :
          (/\ isInitialized /\ header /\ k \notin varHeadersDict
           /\ lastSessionInfoUpdate >= sessionInfoUpdate
           /\ sessionInfoDict[k].data # NoBytes
           /\ Get(k))
              => /\ ret'.kind = "session"
                 /\ ret'.data = sessionInfoDict[k].data
                 /\ ~ret'.extracted /\ ~ret'.parsed
                 /\ sessionInfoDict'[k] = sessionInfoDict[k]]_vars

\* C22 witness: the section bytes differ from the recorded ones, the counter
\* has not advanced, and the get returned the cached value without extracting
C22_Witness ==
    /\ ret.op = "get" /\ ret.key = "WeekendInfo" /\ ret.kind = "session"
    /\ ~ret.advanced /\ ~ret.extracted /\ ~ret.parsed
    /\ ret.found /\ ~ret.sameBin
    /\ sessionInfoDict["WeekendInfo"].data = ret.data
    /\ getSessionInfoBinary("WeekendInfo")
           # sessionInfoDict["WeekendInfo"].dataBinary

\* The value the bytes of key k's section parse to now, NoBytes when the
\* section is missing, malformed or without the key
FreshValue(k) ==
    IF getSessionInfoBinary(k) = NoBytes THEN NoBytes
    ELSE ParsedKey(parseIRSDKYaml(translateYamlData(getSessionInfoBinary(k))),
                   k)

C25_DeferredAttemptsOncePerGeneration ==
    [][\A k \in Keys :
          (/\ parseYamlAsync
           /\ sessionInfoUpdate > 0
           /\ attemptAt[k] = sessionInfoUpdate
           /\ Get(k))
              => /\ ~ret'.extracted /\ ~ret'.parsed
                 /\ sessionInfoDict'[k] = sessionInfoDict[k]
                 /\ (sessionInfoDict[k].data = NoBytes) => ret'.kind = "null"]_vars

\* C25 witness: the attempt at this counter value produced nothing, the
\* section has since become extractable, and the get returned absence
\* without extracting
C25_Witness ==
    /\ parseYamlAsync
    /\ ret.op = "get" /\ ret.key = "WeekendInfo" /\ ret.kind = "null"
    /\ ~ret.advanced /\ ~ret.extracted
    /\ ret.obs > 0 /\ attemptAt["WeekendInfo"] = ret.obs
    /\ ret.found
    /\ FreshValue("WeekendInfo") # NoBytes

(***************************************************************************)
(* Claims: the liveness workaround                                         *)
(***************************************************************************)
\* What get('SessionNum') returns in this state
SessionNumKind ==
    GetOn("SessionNum", sessionInfoDict, lastSessionInfoUpdate).kind

\* SessionNum resolves: the get returns a value
SessionNumResolves == SessionNumKind \in {"telemetry", "session"}

\* One isConnected evaluation on state w: reset to 0 on a connected flag,
\* 0 -> 1 on a not-connected flag, 1 -> 2 when to2, 2 -> 3 when to3
WorkaroundPath(w, connected, to2, to3) ==
    LET w1 == IF connected THEN 0 ELSE w
        w2 == IF w1 = 0 /\ ~connected THEN 1 ELSE w1
        w3 == IF w2 = 1 /\ to2 THEN 2 ELSE w2
    IN  IF w3 = 2 /\ to3 THEN 3 ELSE w3

workaroundNext(w, connected, kind, fromTestFile) ==
    WorkaroundPath(w, connected, kind = "null" \/ fromTestFile, kind # "null")

\* C27: the next workaround state is a function of the current state, the
\* status flag and whether SessionNum resolves: an evaluation in which
\* get('SessionNum') had returned any other result of the same resolvability
\* leads to the same state.
C27_NextStateFromStatusAndResolvability ==
    [][(IsConnected /\ header)
          => \A kind \in {"null", "undefined", "telemetry", "session"} :
               ((kind \in {"telemetry", "session"}) = SessionNumResolves)
                  => workaroundNext(workaroundConnectedState,
                                    status = status_connected,
                                    kind, testFile)
                        = workaroundConnectedState']_vars

\* C28: once the workaround state is 3, every isConnected evaluation made
\* while the object holds the region and a fresh-data source and the status
\* flag is not connected returns true and leaves the state at 3, whatever
\* get('SessionNum') returns; the state leaves 3 only in an isConnected
\* evaluation that observes a connected status flag.
C28_NoFlappingAfterThree ==
    [][/\ (/\ workaroundConnectedState = 3
           /\ header /\ (testFile \/ dataValidEvent)
           /\ status # status_connected
           /\ IsConnected)
              => (ret'.kind = "true" /\ workaroundConnectedState' = 3)
       /\ (workaroundConnectedState = 3 /\ workaroundConnectedState' # 3)
              => (IsConnected /\ header /\ status = status_connected
                    /\ workaroundConnectedState' = 0)]_vars

\* C28 witness: the state is 3, SessionNum does not resolve any more and the
\* status flag is not connected; the evaluation returned true
C28_Witness ==
    /\ ret.op = "isConnected" /\ ret.kind = "true"
    /\ workaroundConnectedState = 3
    /\ isInitialized /\ status # status_connected
    /\ SessionNumKind = "null"

(***************************************************************************)
(* Claims: freeze and unfreeze                                             *)
(***************************************************************************)
\* C29: freezeVarBufferLatest() captures a buffer whose tick counter is the
\* highest at the call, and a get of a variable made while frozen returns
\* the cell at the descriptor's offset in the captured buffer's data (base
\* offset 0 in the captured range).
C29_FreezeCapturesHighestReadsAtOffset ==
    /\ [](ret.op = "freeze" /\ ret.kind = "void" /\ header)
             => (ret.selTick = ret.maxTick /\ varBufferLatest = ret.buf
                   /\ frozenMemory = [start |-> BufOffset(ret.buf),
                                      len |-> BufLen])
    /\ [][\A k \in VarNames :
            (isInitialized /\ header /\ varBufferLatest # 0 /\ Get(k))
               => /\ ret'.kind = "telemetry"
                  /\ ret'.buf = capBuf
                  /\ ret'.val = mem[BufOffset(capBuf) + VarOffset(k)]]_vars


\* C30: unfreezeVarBufferLatest() releases the snapshot; calling it when no
\* freeze is active changes nothing; and a get of a telemetry variable that
\* follows it reads the live region from the buffer that is second-highest
\* by the tick counters current at that get.
C30_UnfreezeRestoresDynamicSelection ==
    [][/\ UnfreezeVarBufferLatest
             => (varBufferLatest' = 0 /\ frozenMemory' = NoView)
       /\ (UnfreezeVarBufferLatest /\ varBufferLatest = 0)
             => UNCHANGED <<telemVars, textVars, sdkVars, hdrVars, connVars>>
       /\ \A k \in VarNames :
            (isInitialized /\ header /\ ret.op = "unfreeze" /\ Get(k))
               => /\ ret'.kind = "telemetry"
                  /\ ~ret'.frozen
                  /\ ret'.selTick = SecondTick
                  /\ ret'.val = mem[BufOffset(ret'.buf) + VarOffset(k)]]_vars


(***************************************************************************)
(* Claims: reads outside a freeze bracket                                  *)
(***************************************************************************)
\* C31: outside a freeze bracket each get of a variable selects its buffer
\* from the tick counters current at that get (the second-highest, the only
\* one with one buffer), so two consecutive gets with writer steps between
\* them can read from different ticks (C31_Witness is such a state).
C31_EachGetReselects ==
    (ret.op = "get" /\ ret.kind = "telemetry" /\ ~ret.frozen)
        => /\ ret.selTick = ret.secondTick
           /\ ret.prevTick \in {-1} \cup Ticks

\* The second of two consecutive unfrozen gets read a tick other than the
\* one the first read
C31_Witness ==
    /\ ret.op = "get" /\ ret.kind = "telemetry" /\ ~ret.frozen
    /\ ret.prevTick # -1
    /\ ret.prevTick # ret.selTick


(***************************************************************************)
(* Claims: replay reads and table of the open file                         *)
(***************************************************************************)
\* varHeader.offset of name in the descriptor table of file f
FileVarOffset(f, name) ==
    LET h == FileHeader(f)
    IN  h.offsets[CHOOSE j \in 1..h.numVars : h.names[j] = name]

\* C32: for an index in [0, sessionRecordCount) and a name of the descriptor
\* table of the open file, get(index, name) returns the value decoded at
\* file offset descriptor.offset + varBuf[0].bufOffset + index * bufLen.
C32_GetReadsRecordAtOffset ==
    (/\ ret.op = "ibt.get" /\ ret.file # 0
     /\ ret.index >= 0
     /\ ret.index < FileHeader(ret.file).sessionRecordCount
     /\ ret.key \in FileNames(ret.file))
        => /\ ret.kind = "value"
           /\ ret.val = FileData(ret.file)[FileVarOffset(ret.file, ret.key)
                            + FileHeader(ret.file).bufOffset
                            + ret.index * FileHeader(ret.file).bufLen + 1]


\* C33: the descriptor table that get, getAll and varHeadersNamesList use is
\* the one of the most recently opened file: a table or a name list the
\* reader holds was read from the file that is open.
C33_TableOfMostRecentlyOpenedFile ==
    /\ ibtVarHeaders # 0 => ibtVarHeaders = ibtHeader
    /\ ibtVarHeadersNames # 0 => ibtVarHeadersNames = ibtHeader
    /\ (ret.op = "ibt.get" /\ ret.kind = "value")
           => ret.key \in FileNames(ret.file)


(***************************************************************************)
(* Claims: after shutdown and close                                        *)
(***************************************************************************)
\* C34: from a shutdown() until the next startup() that succeeds, get
\* returns undefined for every key, isConnected is false and no frozen
\* snapshot is held; while no replay file is open, IBT.get, IBT.getAll and
\* IBT.varHeadersNamesList return null.
C34_NothingServedAfterShutdown ==
    /\ [](shutDown => (varBufferLatest = 0 /\ frozenMemory = NoView))
    /\ []((ret.op \in {"ibt.get", "ibt.getAll", "ibt.varHeadersNamesList"}
             /\ ret.file = 0) => ret.kind = "null")
    /\ [][/\ \A k \in Keys : (shutDown /\ Get(k)) => ret'.kind = "undefined"
          /\ (shutDown /\ IsConnected) => ret'.kind = "false"]_vars


(***************************************************************************)
(* Claims: extractYamlSection stays inside the text block                  *)
(***************************************************************************)
\* A "\n\n" of the block that starts behind position h of the block
DelimiterAfter(a, h) ==
    \E i \in (h + 1)..(Len(BlockOf(a)) - 1) :
        BlockOf(a)[i] = NL /\ BlockOf(a)[i + 1] = NL

\* C35: a result of extractYamlSection is a sub-range of the text block that
\* starts at a header line lying entirely inside the block; the result is
\* absent when the header pattern does not occur in the block; and when no
\* "\n\n" follows the header in the block the result runs to the block end.
C35_ResultInsideBlock ==
    out.done =>
        /\ HeaderAt(arg) = {} => out.result = NoBytes
        /\ out.result # NoBytes =>
              \E h \in {MinOf(HeaderAt(arg))} :
                 /\ \E q \in (h + 1)..Len(BlockOf(arg)) :
                        out.result = SubSeq(BlockOf(arg), h + 1, q)
                 /\ ~DelimiterAfter(arg, h)
                       => out.result = SubSeq(BlockOf(arg), h + 1,
                                              Len(BlockOf(arg)))

\* A block with bytes of the region on both sides, in which the header line
\* is found and no "\n\n" follows it: the result runs to the block end
C35_Witness ==
    /\ out.done /\ out.result # NoBytes
    /\ arg.offset > 0
    /\ arg.offset + arg.len < Len(arg.sharedMem)
    /\ ~DelimiterAfter(arg, MinOf(HeaderAt(arg)))
    /\ out.result = SubSeq(BlockOf(arg), MinOf(HeaderAt(arg)) + 1, arg.len)


(***************************************************************************)
(* Claims: reads past the end of the backing bytes                         *)
(***************************************************************************)
\* The bytes a read is served from: the captured stride for a frozen read,
\* else the whole region or replay file
BackingBytes(a) ==
    IF a.store = "frozen"
    THEN SubSeq(a.sharedMem, a.bufOffset + 1, a.bufOffset + a.bufLen)
    ELSE a.sharedMem

\* Offset of the descriptor's first byte in the backing bytes
RangeStart(a) ==
    a.varOffset + (CASE a.store = "frozen" -> 0
                     [] a.store = "region" -> a.bufOffset
                     [] OTHER -> a.bufOffset + a.index * a.bufLen)

\* C36: when the byte range of a descriptor (base offset + descriptor.offset
\* + count x typeSize) extends past the end of the backing bytes, get
\* returns no value (the read throws); a value that get returns is decoded
\* from the bytes of that range in the backing bytes.
C36_OutOfRangeReadsRejected ==
    (out.done /\ arg.fn = "get" /\ getTypeSize(arg.typeChar) > 0)
        => \E size \in {getTypeSize(arg.typeChar)} :
             /\ RangeStart(arg) + arg.count * size > Len(BackingBytes(arg))
                   => out.threw
             /\ ~out.threw
                   => /\ RangeStart(arg) + arg.count * size
                            <= Len(BackingBytes(arg))
                      /\ out.value
                           = IF arg.count = 1
                             THEN unpackValue(BackingBytes(arg),
                                              RangeStart(arg), arg.typeChar)
                             ELSE [i \in 1..arg.count |->
                                     unpackValue(BackingBytes(arg),
                                         RangeStart(arg) + (i - 1) * size,
                                         arg.typeChar)]

\* A frozen read whose range ends behind the captured stride but inside the
\* region is rejected
C36_Witness ==
    /\ out.done /\ arg.fn = "get" /\ arg.store = "frozen" /\ out.threw
    /\ arg.varOffset + arg.count * getTypeSize(arg.typeChar) > arg.bufLen
    /\ arg.bufOffset + arg.varOffset + arg.count * getTypeSize(arg.typeChar)
          <= Len(arg.sharedMem)


(***************************************************************************)
(* Claims: scalar decoding by type tag                                     *)
(***************************************************************************)
\* The two 16-bit halves of the 4 little-endian bytes at the offset
LowHalf(a) == BytesAt(a)[1] + 256 * BytesAt(a)[2]
HighHalf(a) == BytesAt(a)[3] + 256 * BytesAt(a)[4]

\* C37: tag int32 decodes the 4 little-endian bytes as a signed two's-
\* complement number in -2^31..2^31-1, tag uint32 the same bytes as the
\* unsigned number in 0..2^32-1 (written <<high half, low half>>), tag bool
\* is true exactly when the byte is not 0, tag char is the byte as an
\* integer 0..255; and the replay reader decodes every tag to the same value
\* as the live reader.
C37_ScalarDecodingByTag ==
    (out.done /\ arg.fn = "unpackValue")
        => /\ arg.typeChar = "i"
                => /\ out.value >= -2147483647 - 1
                   /\ out.value <= 2147483647
                   /\ out.value % 65536 = LowHalf(arg)
                   /\ (out.value - LowHalf(arg)) \div 65536
                         = IF HighHalf(arg) >= 32768
                           THEN HighHalf(arg) - 65536 ELSE HighHalf(arg)
           /\ arg.typeChar = "I"
                => out.value = <<HighHalf(arg), LowHalf(arg)>>
           /\ arg.typeChar = "?"
                => (out.value <=> BytesAt(arg)[1] # 0)
           /\ arg.typeChar = "c"
                => (out.value = BytesAt(arg)[1] /\ out.value \in 0..255)
           /\ unpackSingleValue(arg.buffer, arg.offset, arg.typeChar)
                 = out.value

\* The bytes 00 00 00 80 (0x80000000) read as int32 are -2^31
C37_Witness ==
    /\ out.done /\ arg.fn = "unpackValue" /\ arg.typeChar = "i"
    /\ BytesAt(arg) = <<0, 0, 0, 128>>
    /\ out.value = -2147483647 - 1


(***************************************************************************)
(* Claims: translateYamlData                                               *)
(***************************************************************************)
\* Number of bytes in front of the first zero byte of data
BytesBeforeZero(data) ==
    IF \E i \in 1..Len(data) : data[i] = 0
    THEN MinOf({i \in 1..Len(data) : data[i] = 0}) - 1
    ELSE Len(data)

\* C38: the string translateYamlData returns has one code point for each
\* byte in front of the first zero byte: 0x20 for the bytes 0x81, 0x8D,
\* 0x8F, 0x90 and 0x9D, the byte's own number for every other byte; and the
\* input buffer holds the same bytes after the call.
C38_TranslateYamlData ==
    (out.done /\ arg.fn = "translateYamlData")
        => /\ Len(out.str) = BytesBeforeZero(arg.data)
           /\ \A i \in 1..Len(out.str) :
                 out.str[i] = IF arg.data[i] \in {129, 141, 143, 144, 157}
                              THEN 32 ELSE arg.data[i]
           /\ out.data = arg.data

\* A translated byte, a byte above 127 that is kept, then the zero byte
C38_Witness ==
    /\ out.done /\ arg.fn = "translateYamlData"
    /\ arg.data = <<129, 255, 0>>
    /\ out.str = <<32, 255>>

=============================================================================
